---- MODULE Spec2Model ----
(***************************************************************************)
(* A model of leaflet-heatmap-layer: the HeatLayer (src/src/HeatLayer.ts)  *)
(* and the HeatRenderer (src/src/HeatRenderer.ts), together with the parts *)
(* of the host (Leaflet map, animation frames, timers) that they call.     *)
(*                                                                         *)
(* JavaScript numbers are modelled as exact rationals.  The zoom factor is *)
(* a power of two, for which IEEE-754 multiplication and division are      *)
(* exact as well, so the cancellation the code relies on is the same.      *)
(* Where the rounding of the sums and quotients of a recompute matters,    *)
(* the recompute is modelled a second time with every operation rounded    *)
(* (RecomputeRounded, SpecD).                                              *)
(***************************************************************************)
EXTENDS Integers, Sequences, FiniteSets, TLC

(***************************************************************************)
(* Optional values: JavaScript's undefined / null is None, a value v that  *)
(* is present is Some(v).                                                  *)
(***************************************************************************)
None == <<>>

Some(v) == <<v>>

\* JavaScript's  o ?? d
Coalesce(o, d) == IF o = None THEN d ELSE o[1]

\* Statement sequencing: the value x of one statement is computed once, then
\* the statements F that follow run on it
Then(x, F(_)) == CHOOSE r \in {F(t) : t \in {x}} : TRUE

(***************************************************************************)
(* Exact arithmetic.  A number is [n, d, e] and stands for                 *)
(* (n / d) * 10^(-e), with d > 0 and n/d in lowest terms.  The decimal     *)
(* exponent e is only there to hold 1e-10 without a 10^10 denominator.     *)
(* A non-zero number divided by 0 is Infinity or -Infinity, as in          *)
(* JavaScript: n is 1 or -1 and d is 0.                                    *)
(***************************************************************************)
Abs(x) == IF x < 0 THEN -x ELSE x

Min(a, b) == IF a < b THEN a ELSE b

Max(a, b) == IF a > b THEN a ELSE b

RECURSIVE GCD(_, _)
GCD(a, b) == IF b = 0 THEN a ELSE GCD(b, a % b)

RECURSIVE Pow2(_)
Pow2(k) == IF k = 0 THEN 1 ELSE 2 * Pow2(k - 1)

\* floor(x / 10^k), one digit at a time
RECURSIVE DivPow10(_, _)
DivPow10(x, k) == IF k = 0 THEN x ELSE DivPow10(x \div 10, k - 1)

RatE(n, d, e) ==
    IF n = 0 THEN [n |-> 0, d |-> 1, e |-> 0]
    ELSE IF d = 0 THEN [n |-> IF n < 0 THEN -1 ELSE 1, d |-> 0, e |-> 0]
    ELSE LET s == IF d < 0 THEN -1 ELSE 1
             g == GCD(Abs(n), Abs(d))
         IN  [n |-> (s * n) \div g, d |-> (s * d) \div g, e |-> e]

Rat(n, d) == RatE(n, d, 0)

R(i) == Rat(i, 1)

RMul(a, b) ==
    LET g1 == GCD(Abs(a.n), b.d)
        g2 == GCD(Abs(b.n), a.d)
    IN  RatE((a.n \div g1) * (b.n \div g2), (a.d \div g2) * (b.d \div g1), a.e + b.e)

\* a / b, for a and b not both 0
RDiv(a, b) ==
    IF b.n = 0 THEN RatE(a.n, 0, 0) ELSE RMul(a, RatE(b.d, b.n, -b.e))

\* a + b; the operands the program adds have the same decimal exponent
RAdd(a, b) ==
    IF a.n = 0 THEN b
    ELSE IF b.n = 0 THEN a
    ELSE LET g == GCD(a.d, b.d)
         IN  RatE(a.n * (b.d \div g) + b.n * (a.d \div g), (a.d \div g) * b.d, a.e)

RNeg(a) == [a EXCEPT !.n = -a.n]

RSub(a, b) == RAdd(a, RNeg(b))

\* a < b.  With l = a.n * b.d, r = b.n * a.d and k = a.e - b.e:
\* a < b  iff  l < r * 10^k, decided without forming the power of ten
RLess(a, b) ==
    LET l == a.n * b.d
        r == b.n * a.d
        k == a.e - b.e
    IN  IF k = 0 THEN l < r
        ELSE IF k > 0 THEN DivPow10(l, k) < r
        ELSE l < - DivPow10(-r, -k)

RLeq(a, b) == a = b \/ RLess(a, b)

RMax(a, b) == IF RLess(a, b) THEN b ELSE a

\* Math.floor of a number with e = 0
RFloor(a) == a.n \div a.d

Zero == R(0)

One == R(1)

(***************************************************************************)
(* Program constants                                                       *)
(***************************************************************************)
DefaultRadius == 25

DefaultBlur == 15

DefaultMinOpacity == Rat(5, 100)

DefaultCrossfade == 250

MaxAttenuation == 12

\* 1e-10, the floor of the automatic maximum
EpsilonExp == 10

Epsilon == RatE(1, 1, EpsilonExp)

(***************************************************************************)
(* Points (HeatLatLng).  form is "array2" for [lat, lng], "array3" for     *)
(* [lat, lng, intensity] and "latlng" for an L.LatLng, whose alt may be    *)
(* absent.  lat and lng are integers, intensities are rationals.           *)
(***************************************************************************)
Arr2(lat, lng) == [form |-> "array2", lat |-> lat, lng |-> lng, alt |-> None]

Arr3(lat, lng, i) == [form |-> "array3", lat |-> lat, lng |-> lng, alt |-> Some(i)]

LatLng(lat, lng, alt) == [form |-> "latlng", lat |-> lat, lng |-> lng, alt |-> alt]

\* _getIntensity that takes an intensity of 0 for a missing one
GetIntensityOrOne(p) ==
    IF p.alt = None \/ p.alt = Some([n |-> 0, d |-> 1, e |-> 0])
    THEN [n |-> 1, d |-> 1, e |-> 0]
    ELSE p.alt[1]

\* HeatLayer._getIntensity
GetIntensity(p) ==
    IF p.form = "latlng" THEN Coalesce(p.alt, One)
    ELSE IF p.form = "array3" THEN p.alt[1]
    ELSE One

\* HeatLayer._toLatLng
ToLatLng(p) == [lat |-> p.lat, lng |-> p.lng]

(***************************************************************************)
(* The host map, with a linear projection (L.CRS.Simple): at zoom z one    *)
(* degree is 2^z pixels, x grows with lng and y grows as lat falls.  A     *)
(* view is [zoom, pane, size, origin, maxZoom]: pane is the position of    *)
(* the map pane (it moves on a pan), origin the pixel origin fixed at the  *)
(* last view reset, size the container's size in pixels.                   *)
(***************************************************************************)
Pt(x, y) == [x |-> x, y |-> y]

\* map.project(latlng, zoom)
Project(ll, z) == Pt(ll.lng * Pow2(z), (- ll.lat) * Pow2(z))

\* map.latLngToLayerPoint(latlng)
LatLngToLayerPoint(view, ll) ==
    LET w == Project(ll, view.zoom)
    IN  Pt(w.x - view.origin.x, w.y - view.origin.y)

\* map.containerPointToLayerPoint([0, 0])
ContainerOriginToLayerPoint(view) == Pt(- view.pane.x, - view.pane.y)

\* map.getBounds(): the container rectangle, unprojected
GetBounds(view) ==
    LET tlx == view.origin.x - view.pane.x
        tly == view.origin.y - view.pane.y
        s   == Pow2(view.zoom)
    IN  [west  |-> Rat(tlx, s),
         east  |-> Rat(tlx + view.size.x, s),
         north |-> Rat(- tly, s),
         south |-> Rat(- (tly + view.size.y), s)]

\* bounds that contain every position
BoundsContainAll(b, ll) == TRUE

\* L.latLngBounds(...).contains(latlng): the borders belong to the bounds
BoundsContain(b, ll) ==
    /\ RLeq(b.south, R(ll.lat)) /\ RLeq(R(ll.lat), b.north)
    /\ RLeq(b.west, R(ll.lng)) /\ RLeq(R(ll.lng), b.east)

(***************************************************************************)
(* HeatLayer._redraw, the computation between the guards and the call of   *)
(* renderer.draw                                                           *)
(***************************************************************************)
\* r = renderer.radius + renderer.blur
FullRadius(rend) == rend.radius + rend.blur

\* cellSize = Math.max(1, Math.floor(renderer.radius / 2))
CellSize(rend) == Max(1, rend.radius \div 2)

\* the zoom factor without the lower clamp: above 1 beyond maxZoom
ZoomFactorUnclamped(opts, view) ==
    LET maxZoom == Coalesce(opts.maxZoom, view.maxZoom)
    IN  IF maxZoom < view.zoom THEN R(Pow2(view.zoom - maxZoom))
        ELSE Rat(1, Pow2(Min(maxZoom - view.zoom, MaxAttenuation)))

\* v = 1 / Math.pow(2, Math.max(0, Math.min(maxZoom - zoom, 12)))
ZoomFactor(opts, view) ==
    LET maxZoom == Coalesce(opts.maxZoom, view.maxZoom)
    IN  Rat(1, Pow2(Max(0, Min(maxZoom - view.zoom, MaxAttenuation))))

\* the visible bounds without any padding
VisibleBounds(rend, view) == GetBounds(view)

\* the visible bounds padded by r pixels, as degrees
PaddedBounds(rend, view) ==
    LET b      == GetBounds(view)
        r      == R(FullRadius(rend))
        padLat == RMul(RDiv(r, R(view.size.y)), RSub(b.north, b.south))
        padLng == RMul(RDiv(r, R(view.size.x)), RSub(b.east, b.west))
    IN  [south |-> RSub(b.south, padLat), west |-> RSub(b.west, padLng),
         north |-> RAdd(b.north, padLat), east |-> RAdd(b.east, padLng)]

\* pass 1: the loop over all points
RECURSIVE AutoMaxLoop(_, _, _, _)
AutoMaxLoop(pts, k, v, autoMax) ==
    IF k > Len(pts) THEN autoMax
    ELSE LET scaled == RMul(GetIntensity(pts[k]), v)
         IN  AutoMaxLoop(pts, k + 1, v, IF RLess(autoMax, scaled) THEN scaled ELSE autoMax)

\* EffectiveMax with the maximum taken over the points in the padded bounds only
EffectiveMaxVisibleOnly(pts, opts, rend, view) ==
    LET v       == ZoomFactor(opts, view)
        padded  == PaddedBounds(rend, view)
        visible == SelectSeq(pts, LAMBDA p : BoundsContain(padded, ToLatLng(p)))
        autoMax == IF opts.max = None THEN AutoMaxLoop(visible, 1, v, Zero) ELSE Zero
    IN  Coalesce(opts.max, RMax(autoMax, Epsilon))

\* EffectiveMax with the maximum of the intensities, not scaled by the zoom factor
EffectiveMaxUnscaled(pts, opts, rend, view) ==
    LET autoMax == IF opts.max = None THEN AutoMaxLoop(pts, 1, One, Zero) ELSE Zero
    IN  Coalesce(opts.max, RMax(autoMax, Epsilon))

\* EffectiveMax without the floor
EffectiveMaxNoFloor(pts, opts, rend, view) ==
    LET v       == ZoomFactor(opts, view)
        autoMax == IF opts.max = None THEN AutoMaxLoop(pts, 1, v, Zero) ELSE Zero
    IN  Coalesce(opts.max, autoMax)

\* EffectiveMax with the cap used as a floor of the automatic maximum
EffectiveMaxCapAsFloor(pts, opts, rend, view) ==
    LET v       == ZoomFactor(opts, view)
        autoMax == AutoMaxLoop(pts, 1, v, Zero)
    IN  RMax(autoMax, Coalesce(opts.max, Epsilon))

\* lines 337-345: autoMax and effectiveMax
\* effectiveMax = this._options.max ?? Math.max(autoMax, 1e-10)
EffectiveMax(pts, opts, rend, view) ==
    LET v       == ZoomFactor(opts, view)
        autoMax == IF opts.max = None THEN AutoMaxLoop(pts, 1, v, Zero) ELSE Zero
    IN  Coalesce(opts.max, RMax(autoMax, Epsilon))

\* the index of the cell with this key in the grid, 0 when there is none
CellIndex(grid, key) ==
    IF \E j \in 1..Len(grid) : grid[j].key = key
    THEN CHOOSE j \in 1..Len(grid) : grid[j].key = key
    ELSE 0

\* the loop body of pass 2 with the cell key taken from the canvas-local pixel
AccumulateViewportKeys(grid, p, rend, view, v, padded) ==
    LET latlng == ToLatLng(p)
    IN  IF ~ BoundsContain(padded, latlng) THEN grid
        ELSE LET lp        == LatLngToLayerPoint(view, latlng)
                 topLeft   == ContainerOriginToLayerPoint(view)
                 x         == lp.x - topLeft.x
                 y         == lp.y - topLeft.y
                 intensity == RMul(GetIntensity(p), v)
                 key       == <<x \div CellSize(rend), y \div CellSize(rend)>>
                 j         == CellIndex(grid, key)
             IN  IF j # 0
                 THEN [grid EXCEPT ![j] =
                          [key |-> key,
                           sx  |-> RAdd(@.sx, RMul(R(x), intensity)),
                           sy  |-> RAdd(@.sy, RMul(R(y), intensity)),
                           si  |-> RAdd(@.si, intensity),
                           cnt |-> @.cnt + 1]]
                 ELSE Append(grid, [key |-> key,
                                    sx  |-> RMul(R(x), intensity),
                                    sy  |-> RMul(R(y), intensity),
                                    si  |-> intensity,
                                    cnt |-> 1])

\* one turn of the loop of pass 2 for point p
Accumulate(grid, p, rend, view, v, padded) ==
    LET latlng == ToLatLng(p)
    IN  IF ~ BoundsContain(padded, latlng) THEN grid
        ELSE LET lp        == LatLngToLayerPoint(view, latlng)
                 topLeft   == ContainerOriginToLayerPoint(view)
                 x         == lp.x - topLeft.x
                 y         == lp.y - topLeft.y
                 intensity == RMul(GetIntensity(p), v)
                 key       == <<lp.x \div CellSize(rend), lp.y \div CellSize(rend)>>
                 j         == CellIndex(grid, key)
             IN  IF j # 0
                 THEN [grid EXCEPT ![j] =
                          [key |-> key,
                           sx  |-> RAdd(@.sx, RMul(R(x), intensity)),
                           sy  |-> RAdd(@.sy, RMul(R(y), intensity)),
                           si  |-> RAdd(@.si, intensity),
                           cnt |-> @.cnt + 1]]
                 ELSE Append(grid, [key |-> key,
                                    sx  |-> RMul(R(x), intensity),
                                    sy  |-> RMul(R(y), intensity),
                                    si  |-> intensity,
                                    cnt |-> 1])

\* pass 2: the grid, its cells in the order in which they were created
RECURSIVE GridLoop(_, _, _, _, _, _, _)
GridLoop(pts, k, rend, view, v, padded, grid) ==
    IF k > Len(pts) THEN grid
    ELSE GridLoop(pts, k + 1, rend, view, v, padded,
                  Accumulate(grid, pts[k], rend, view, v, padded))

Grid(pts, opts, rend, view) ==
    GridLoop(pts, 1, rend, view, ZoomFactor(opts, view), PaddedBounds(rend, view), <<>>)

\* the blob of one cell with the mean of the intensities for their sum
CellBlobMean(cell, effectiveMax) ==
    [x |-> RDiv(cell.sx, cell.si), y |-> RDiv(cell.sy, cell.si),
     i |-> RDiv(RDiv(cell.si, R(cell.cnt)), effectiveMax)]

\* the blob of one cell
CellBlob(cell, effectiveMax) ==
    [x |-> RDiv(cell.sx, cell.si), y |-> RDiv(cell.sy, cell.si),
     i |-> RDiv(cell.si, effectiveMax)]

\* the cells of the grid to blobs; a cell whose total intensity is 0 is skipped
RECURSIVE PixelPoints(_, _, _)
PixelPoints(grid, k, effectiveMax) ==
    IF k > Len(grid) THEN <<>>
    ELSE IF grid[k].si = Zero THEN PixelPoints(grid, k + 1, effectiveMax)
    ELSE <<CellBlob(grid[k], effectiveMax)>> \o PixelPoints(grid, k + 1, effectiveMax)

\* what one recompute computes
Recompute(pts, opts, rend, view) ==
    LET v    == ZoomFactor(opts, view)
        eMax == EffectiveMax(pts, opts, rend, view)
        grid == Grid(pts, opts, rend, view)
    IN  [v |-> v, effectiveMax |-> eMax, grid |-> grid,
         blobs |-> PixelPoints(grid, 1, eMax)]

(***************************************************************************)
(* HeatRenderer                                                            *)
(***************************************************************************)
DefaultGradient == "DEFAULT_GRADIENT"

\* new HeatRenderer(canvas, options): the stamp and the palette are not built yet
NewRenderer(o) ==
    [radius     |-> Coalesce(o.radius, DefaultRadius),
     blur       |-> Coalesce(o.blur, DefaultBlur),
     minOpacity |-> Coalesce(o.minOpacity, DefaultMinOpacity),
     gradient   |-> Coalesce(o.gradient, DefaultGradient),
     circle     |-> None,
     palette    |-> None]

\* setOptions that keeps the stamp and the palette it has
RendererSetOptionsKeepingCaches(rend, o) ==
    [rend EXCEPT !.radius     = Coalesce(o.radius, rend.radius),
                 !.blur       = Coalesce(o.blur, rend.blur),
                 !.gradient   = Coalesce(o.gradient, rend.gradient),
                 !.minOpacity = Coalesce(o.minOpacity, rend.minOpacity)]

\* HeatRenderer.setOptions(options)
RendererSetOptions(rend, o) ==
    LET r1 == IF o.radius # None \/ o.blur # None
              THEN [rend EXCEPT !.radius = Coalesce(o.radius, rend.radius),
                                !.blur   = Coalesce(o.blur, rend.blur),
                                !.circle = None]
              ELSE rend
        r2 == IF o.gradient # None
              THEN [r1 EXCEPT !.gradient = o.gradient[1], !.palette = None]
              ELSE r1
    IN  IF o.minOpacity # None THEN [r2 EXCEPT !.minOpacity = o.minOpacity[1]] ELSE r2

(***************************************************************************)
(* The pixels of the raster.  A pixel is [r, g, b, a], four bytes, as in   *)
(* ImageData.  The raster is watched at the pixels of SamplePixels; a      *)
(* position outside the canvas reads as transparent black.                 *)
(***************************************************************************)
Byte == 255

TransparentBlack == [r |-> 0, g |-> 0, b |-> 0, a |-> 0]

\* the pixels watched: at and near the points of the scenarios, and in a corner
SamplePixels == {Pt(100, 50), Pt(130, 50), Pt(120, 55), Pt(0, 0)}

ClearedPixels == [q \in SamplePixels |-> TransparentBlack]

\* a raster with every pixel transparent
ClearedRaster == [stamps |-> <<>>, palette |-> None, pixels |-> ClearedPixels]

InCanvas(q, sz) == q.x >= 0 /\ q.x < sz.x /\ q.y >= 0 /\ q.y < sz.y

\* the square of a number
RSq(a) == RMul(a, a)

\* the alpha of the stamp image at (dx, dy) from its centre: the shadow of
\* a disc of the radius, blurred: opaque well inside the disc, gone beyond
\* radius + blur, in between in between
StampAlpha(circle, dx, dy) ==
    LET d2 == RAdd(RSq(dx), RSq(dy))
    IN  IF circle.radius >= circle.blur /\ RLeq(d2, R((circle.radius - circle.blur) * (circle.radius - circle.blur)))
        THEN Byte
        ELSE IF RLess(d2, R((circle.radius + circle.blur) * (circle.radius + circle.blur)))
        THEN (Byte + 1) \div 2
        ELSE 0

\* ctx.drawImage(circle, x, y) under ctx.globalAlpha: the stamp is black, and is
\* composited source-over onto each pixel it covers
DrawImage(pixels, stamp, sz) ==
    [q \in DOMAIN pixels |->
        IF ~ InCanvas(q, sz) THEN pixels[q]
        ELSE LET fullRadius == stamp.circle.radius + stamp.circle.blur
                 dx == RSub(R(q.x), RAdd(stamp.x, R(fullRadius)))
                 dy == RSub(R(q.y), RAdd(stamp.y, R(fullRadius)))
                 src == RFloor(RAdd(RMul(stamp.alpha, R(StampAlpha(stamp.circle, dx, dy))),
                                    Rat(1, 2)))
             IN  [pixels[q] EXCEPT !.a = src + (@ * (Byte - src)) \div Byte]]

\* the pixels after the drawImage calls of the stamping loop, on a cleared canvas
RECURSIVE StampedPixels(_, _, _, _)
StampedPixels(stamps, k, sz, pixels) ==
    IF k > Len(stamps) THEN pixels
    ELSE StampedPixels(stamps, k + 1, sz, DrawImage(pixels, stamps[k], sz))

\* the colour stops of a gradient, as addColorStop is given them
Blue == <<0, 0, 255>>

Cyan == <<0, 255, 255>>

Lime == <<0, 255, 0>>

Yellow == <<255, 255, 0>>

Red == <<255, 0, 0>>

GradientStops(gradient) ==
    IF gradient = "DEFAULT_GRADIENT"
    THEN <<[at |-> Rat(4, 10), rgb |-> Blue], [at |-> Rat(6, 10), rgb |-> Cyan],
           [at |-> Rat(7, 10), rgb |-> Lime], [at |-> Rat(8, 10), rgb |-> Yellow],
           [at |-> One, rgb |-> Red]>>
    ELSE <<[at |-> Zero, rgb |-> Blue], [at |-> One, rgb |-> Red]>>

\* the palette is 256 pixels of 4 bytes
PaletteLength == 256

\* the colour of a linear gradient at t: the colour of the first stop before
\* it, of the last stop after it, and between two stops in proportion
GradientAt(stops, t) ==
    IF RLeq(t, stops[1].at) THEN stops[1].rgb
    ELSE IF RLeq(stops[Len(stops)].at, t) THEN stops[Len(stops)].rgb
    ELSE LET k == CHOOSE k \in 1..(Len(stops) - 1) :
                      RLess(stops[k].at, t) /\ RLeq(t, stops[k + 1].at)
             w == RDiv(RSub(t, stops[k].at), RSub(stops[k + 1].at, stops[k].at))
         IN  [c \in 1..3 |->
                 RFloor(RAdd(RAdd(R(stops[k].rgb[c]),
                                  RMul(w, R(stops[k + 1].rgb[c] - stops[k].rgb[c]))),
                             Rat(1, 2)))]

\* the byte at offset of the data of the palette built from the gradient:
\* pixel i of a 256 by 1 canvas filled with the gradient from x = 0 to x = 256
PaletteData(gradient, offset) ==
    LET i   == offset \div 4
        rgb == GradientAt(GradientStops(gradient), Rat(2 * i + 1, 2 * PaletteLength))
    IN  IF offset % 4 = 3 THEN Byte ELSE rgb[(offset % 4) + 1]

\* _colorize that writes the alpha of the palette as well
ColorizeOpaque(pixels, palette, sz) ==
    IF sz.x = 0 \/ sz.y = 0 THEN pixels
    ELSE [q \in DOMAIN pixels |->
             IF ~ InCanvas(q, sz) \/ pixels[q].a = 0 THEN pixels[q]
             ELSE [r |-> PaletteData(palette, pixels[q].a * 4),
                   g |-> PaletteData(palette, pixels[q].a * 4 + 1),
                   b |-> PaletteData(palette, pixels[q].a * 4 + 2),
                   a |-> PaletteData(palette, pixels[q].a * 4 + 3)]]

\* HeatRenderer._colorize: the loop over the pixels of the canvas
Colorize(pixels, palette, sz) ==
    IF sz.x = 0 \/ sz.y = 0 THEN pixels
    ELSE [q \in DOMAIN pixels |->
             IF ~ InCanvas(q, sz) \/ pixels[q].a = 0 THEN pixels[q]
             ELSE [pixels[q] EXCEPT !.r = PaletteData(palette, pixels[q].a * 4),
                                    !.g = PaletteData(palette, pixels[q].a * 4 + 1),
                                    !.b = PaletteData(palette, pixels[q].a * 4 + 2)]]

\* HeatRenderer._getCircle: the cached stamp, built from radius and blur when absent
GetCircle(rend) ==
    IF rend.circle # None THEN rend.circle[1]
    ELSE [radius |-> rend.radius, blur |-> rend.blur]

\* HeatRenderer._getPalette: the cached palette, built from the gradient when absent
GetPalette(rend) ==
    IF rend.palette # None THEN rend.palette[1] ELSE rend.gradient

\* ctx.globalAlpha = a: a value outside 0..1 is ignored by the canvas
SetGlobalAlpha(current, a) ==
    IF RLess(a, Zero) \/ RLess(One, a) THEN current ELSE a

\* the stamping loop of draw: [stamps, alpha], alpha being ctx.globalAlpha
RECURSIVE StampLoop(_, _, _, _, _)
StampLoop(points, k, rend, circle, acc) ==
    IF k > Len(points) THEN acc
    ELSE LET fullRadius == rend.radius + rend.blur
             a          == SetGlobalAlpha(acc.alpha, RMax(points[k].i, rend.minOpacity))
             stamp      == [x |-> RSub(points[k].x, R(fullRadius)),
                            y |-> RSub(points[k].y, R(fullRadius)),
                            alpha |-> a, circle |-> circle]
         IN  StampLoop(points, k + 1, rend, circle,
                       [stamps |-> Append(acc.stamps, stamp), alpha |-> a])

\* HeatRenderer.resize(width, height): setting the size clears the canvas and
\* resets the state of its context
RendererResize(s, w, h) ==
    [s EXCEPT !.dom.size = Pt(w, h), !.dom.globalAlpha = One, !.raster = ClearedRaster]

\* draw that returns at once when it is given no points
RendererDrawNoClear(s, points) ==
    LET rend == s.renderer[1]
    IN  IF points = <<>> THEN s
        ELSE LET circle  == GetCircle(rend)
                 st      == StampLoop(points, 1, rend, circle,
                                      [stamps |-> <<>>, alpha |-> s.dom.globalAlpha])
                 colours == s.dom.size.x # 0 /\ s.dom.size.y # 0
                 rend1   == [rend EXCEPT !.circle = Some(circle),
                                         !.palette = IF colours THEN Some(GetPalette(rend)) ELSE @]
             IN  [s EXCEPT !.renderer = Some(rend1),
                           !.dom.globalAlpha = st.alpha,
                           !.raster = [stamps  |-> st.stamps,
                                       palette |-> IF colours THEN Some(GetPalette(rend)) ELSE None,
                                       pixels  |-> Colorize(StampedPixels(st.stamps, 1, s.dom.size,
                                                                          ClearedPixels),
                                                            GetPalette(rend), s.dom.size)]]

\* HeatRenderer.draw(points), with _colorize
RendererDraw(s, points) ==
    LET rend == s.renderer[1]
    IN  IF points = <<>> THEN [s EXCEPT !.raster = ClearedRaster]
        ELSE LET circle  == GetCircle(rend)
                 st      == StampLoop(points, 1, rend, circle,
                                      [stamps |-> <<>>, alpha |-> s.dom.globalAlpha])
                 colours == s.dom.size.x # 0 /\ s.dom.size.y # 0
                 rend1   == [rend EXCEPT !.circle = Some(circle),
                                         !.palette = IF colours THEN Some(GetPalette(rend)) ELSE @]
             IN  [s EXCEPT !.renderer = Some(rend1),
                           !.dom.globalAlpha = st.alpha,
                           !.raster = [stamps  |-> st.stamps,
                                       palette |-> IF colours THEN Some(GetPalette(rend)) ELSE None,
                                       pixels  |-> Colorize(StampedPixels(st.stamps, 1, s.dom.size,
                                                                          ClearedPixels),
                                                            GetPalette(rend), s.dom.size)]]

(***************************************************************************)
(* HeatLayer.  The handlers are functions of a record s of everything they *)
(* read or write, and of the host's view at the time they run:             *)
(*   latlngs, options, map, canvas, renderer, frame, zooming,              *)
(*   crossfadeTimer, snapshotCanvas     the fields of the layer            *)
(*   listening                          the map events it is subscribed to *)
(*   dom, raster                        its canvas element and its pixels  *)
(*   rafQueue, timers                   the frame callbacks and timeouts   *)
(*                                      the browser holds                  *)
(*   rec        the last recompute that got past its guards: the inputs it *)
(*              read (in), the renderer's radius and blur (rend), which of *)
(*              the inputs differ from those held when its frame was       *)
(*              requested (late), and its v, effectiveMax, grid and blobs; *)
(*              n alternates, to tell one recompute from the next          *)
(*   sinceTick  the runs of _redraw since the last frame boundary, up to 2 *)
(*   req        the inputs held when the pending frame was requested       *)
(*   stale      a call was made on the attached layer and _redraw has not  *)
(*              run since                                                  *)
(*   context    whether a canvas of this browser gives a 2d context        *)
(*   thrown     the error the operation threw to its caller, if it did     *)
(***************************************************************************)
\* the least handle the browser does not hold
NewHandle(held) == CHOOSE h \in 1..(Cardinality(held) + 1) :
                       h \notin held /\ \A g \in 1..(h - 1) : g \in held

\* what a recompute reads: the layer's fields and the map, at the time it runs
CurrentInputs(s, view) == [latlngs |-> s.latlngs, options |-> s.options, view |-> view]

\* redraw that requests a frame whether or not one is pending
LayerRedrawUnguarded(s, view) ==
    IF s.map
    THEN LET h == NewHandle(s.rafQueue)
         IN  [s EXCEPT !.frame = Some(h), !.rafQueue = @ \cup {h},
                       !.req = Some(CurrentInputs(s, view))]
    ELSE s

\* redraw that never requests a frame
LayerRedrawNever(s, view) == s

\* redraw that requests a frame whether or not the layer is on a map
LayerRedrawDetached(s, view) ==
    IF s.frame = None
    THEN LET h == NewHandle(s.rafQueue)
         IN  [s EXCEPT !.frame = Some(h), !.rafQueue = @ \cup {h},
                       !.req = Some(CurrentInputs(s, view))]
    ELSE s

\* HeatLayer.redraw
LayerRedraw(s, view) ==
    IF s.map /\ s.frame = None
    THEN LET h == NewHandle(s.rafQueue)
         IN  [s EXCEPT !.frame = Some(h), !.rafQueue = @ \cup {h},
                       !.req = Some(CurrentInputs(s, view))]
    ELSE s

\* _redraw that empties the point set it has drawn
RedrawWithDraining(s, in, late) ==
    IF ~ s.map \/ s.renderer = None \/ ~ s.canvas THEN s
    ELSE IF in.view.size.x = 0 \/ in.view.size.y = 0 THEN s
    ELSE LET rc == Recompute(in.latlngs, in.options, s.renderer[1], in.view)
             n  == IF s.rec = None THEN 0 ELSE 1 - s.rec[1].n
         IN  RendererDraw(
                 [s EXCEPT !.sinceTick = Min(@ + 1, 2), !.stale = FALSE,
                           !.latlngs = <<>>,
                           !.rec = Some([n |-> n, in |-> in, late |-> late,
                                         rend |-> [radius |-> s.renderer[1].radius,
                                                   blur |-> s.renderer[1].blur],
                                         v |-> rc.v,
                                         effectiveMax |-> rc.effectiveMax,
                                         grid |-> rc.grid, blobs |-> rc.blobs])],
                 rc.blobs)

\* _redraw that draws an empty blob list when the viewport has no size
RedrawWithZeroSizeDraws(s, in, late) ==
    LET s1 == [s EXCEPT !.sinceTick = Min(@ + 1, 2), !.stale = FALSE]
        n  == IF s.rec = None THEN 0 ELSE 1 - s.rec[1].n
    IN  IF ~ s.map \/ s.renderer = None \/ ~ s.canvas THEN s1
        ELSE IF in.view.size.x = 0 \/ in.view.size.y = 0
        THEN RendererDraw(
                 [s1 EXCEPT !.rec = Some([n |-> n, in |-> in, late |-> late,
                                          rend |-> [radius |-> s.renderer[1].radius,
                                                    blur |-> s.renderer[1].blur],
                                          v |-> ZoomFactor(in.options, in.view),
                                          effectiveMax |-> Epsilon,
                                          grid |-> <<>>, blobs |-> <<>>])],
                 <<>>)
        ELSE LET rc == Recompute(in.latlngs, in.options, s.renderer[1], in.view)
             IN  RendererDraw(
                     [s1 EXCEPT !.rec = Some([n |-> n, in |-> in, late |-> late,
                                              rend |-> [radius |-> s.renderer[1].radius,
                                                        blur |-> s.renderer[1].blur],
                                              v |-> rc.v,
                                              effectiveMax |-> rc.effectiveMax,
                                              grid |-> rc.grid, blobs |-> rc.blobs])],
                     rc.blobs)

\* HeatLayer._redraw, reading in; late names the inputs that differ from what
\* the layer and the map held when the recompute was requested
RedrawWith(s, in, late) ==
    LET s1 == [s EXCEPT !.sinceTick = Min(@ + 1, 2), !.stale = FALSE]
    IN  IF ~ s.map \/ s.renderer = None \/ ~ s.canvas THEN s1
        ELSE IF in.view.size.x = 0 \/ in.view.size.y = 0 THEN s1
        ELSE LET n == IF s.rec = None THEN 0 ELSE 1 - s.rec[1].n
                 Draw(rc) ==
                     RendererDraw(
                         [s1 EXCEPT !.rec = Some([n |-> n, in |-> in, late |-> late,
                                                  rend |-> [radius |-> s.renderer[1].radius,
                                                            blur |-> s.renderer[1].blur],
                                                  v |-> rc.v,
                                                  effectiveMax |-> rc.effectiveMax,
                                                  grid |-> rc.grid, blobs |-> rc.blobs])],
                         rc.blobs)
             IN  Then(Recompute(in.latlngs, in.options, s.renderer[1], in.view), Draw)

\* HeatLayer._redraw
LayerRedrawNow(s, view) == RedrawWith(s, CurrentInputs(s, view), {})

\* setLatLngs that also recomputes at once
LayerSetLatLngsNow(s, view, pts) ==
    LayerRedrawNow(LayerRedraw([s EXCEPT !.latlngs = pts], view), view)

\* the frame callback reading what was held when the frame was requested
CallbackInputsAtRequest(s, view) == Coalesce(s.req, CurrentInputs(s, view))

\* what the frame callback's recompute reads
CallbackInputs(s, view) == CurrentInputs(s, view)

\* the callback redraw hands to requestAnimationFrame
FrameCallback(s, view) ==
    RedrawWith([s EXCEPT !.frame = None, !.req = None], CallbackInputs(s, view),
               {f \in {"latlngs", "options", "view"} :
                   s.req # None /\ s.req[1][f] # CurrentInputs(s, view)[f]})

\* HeatLayer.setLatLngs
LayerSetLatLngs(s, view, pts) == LayerRedraw([s EXCEPT !.latlngs = pts], view)

\* HeatLayer.addLatLng
LayerAddLatLng(s, view, p) == LayerRedraw([s EXCEPT !.latlngs = Append(@, p)], view)

\* an assignment that replaces the target: the keys partial lacks are unset
AssignReplacing(target, partial) ==
    [k \in DOMAIN target |-> IF k \in DOMAIN partial THEN partial[k] ELSE None]

\* Object.assign(target, partial): the keys of partial overwrite
Assign(target, partial) ==
    [k \in DOMAIN target |-> IF k \in DOMAIN partial THEN partial[k] ELSE target[k]]

\* HeatLayer.setOptions
LayerSetOptions(s, view, partial) ==
    LET o  == Assign(s.options, partial)
        s1 == [s EXCEPT !.options = o]
        s2 == IF s.renderer # None
              THEN [s1 EXCEPT !.renderer = Some(RendererSetOptions(s.renderer[1],
                        [radius |-> o.radius, blur |-> o.blur,
                         minOpacity |-> o.minOpacity, gradient |-> o.gradient]))]
              ELSE s1
    IN  LayerRedraw(s2, view)

\* HeatLayer._createCanvas: a new canvas element is 300 by 150
NewDom == [size |-> Pt(300, 150), pos |-> Pt(0, 0),
           transform |-> [offset |-> Pt(0, 0), scale |-> One],
           inPane |-> FALSE, globalAlpha |-> One]

\* the errors an operation throws to its caller
NoContextError == "Could not get 2d context from canvas"

TypeError == "TypeError"

NotFoundError == "NotFoundError"

\* _createCanvas that goes on without a renderer when there is no 2d context
CreateCanvasDegraded(s) ==
    IF ~ s.context THEN [s EXCEPT !.canvas = TRUE, !.dom = NewDom]
    ELSE [s EXCEPT !.canvas = TRUE, !.dom = NewDom, !.raster = ClearedRaster,
                   !.renderer = Some(NewRenderer([radius |-> s.options.radius,
                                                  blur |-> s.options.blur,
                                                  minOpacity |-> s.options.minOpacity,
                                                  gradient |-> s.options.gradient]))]

\* HeatLayer._createCanvas: the canvas is assigned, then the renderer is
\* constructed, which throws when the canvas gives no 2d context
CreateCanvas(s) ==
    IF ~ s.context
    THEN [s EXCEPT !.canvas = TRUE, !.dom = NewDom, !.thrown = Some(NoContextError)]
    ELSE [s EXCEPT !.canvas = TRUE, !.dom = NewDom, !.raster = ClearedRaster,
                   !.renderer = Some(NewRenderer([radius |-> s.options.radius,
                                                  blur |-> s.options.blur,
                                                  minOpacity |-> s.options.minOpacity,
                                                  gradient |-> s.options.gradient]))]

\* HeatLayer._clearCrossfade
ClearCrossfade(s) ==
    LET s1 == IF s.crossfadeTimer # None
              THEN [s EXCEPT !.timers = @ \ {s.crossfadeTimer[1]}, !.crossfadeTimer = None]
              ELSE s
    IN  IF s1.snapshotCanvas # None
        THEN [s1 EXCEPT !.snapshotCanvas =
                  Some([@[1] EXCEPT !.transition = None, !.opacity = 0])]
        ELSE s1

\* _takeSnapshot that leaves a crossfade in progress alone
TakeSnapshotKeepingTimer(s) ==
    IF ~ s.canvas \/ ~ s.context THEN s
    ELSE [s EXCEPT !.snapshotCanvas =
             Some([size |-> s.dom.size, content |-> s.raster,
                   transform |-> s.dom.transform, opacity |-> 1,
                   transition |-> None,
                   inDom |-> (IF @ = None THEN FALSE ELSE @[1].inDom) \/ s.dom.inPane])]

\* HeatLayer._takeSnapshot
TakeSnapshot(s) ==
    IF ~ s.canvas THEN s
    ELSE LET s1 == ClearCrossfade(s)
             old == IF s1.snapshotCanvas = None THEN FALSE ELSE s1.snapshotCanvas[1].inDom
         IN  IF ~ s.context
             \* snap.getContext('2d') is null: drawImage of null throws
             THEN [s1 EXCEPT !.thrown = Some(TypeError),
                             !.snapshotCanvas =
                                 IF @ = None
                                 THEN Some([size |-> s.dom.size, content |-> None,
                                            transform |-> NewDom.transform, opacity |-> 1,
                                            transition |-> None, inDom |-> FALSE])
                                 ELSE Some([@[1] EXCEPT !.size = s.dom.size])]
             ELSE [s1 EXCEPT !.snapshotCanvas =
                      Some([size |-> s.dom.size, content |-> s.raster,
                            transform |-> s.dom.transform, opacity |-> 1,
                            transition |-> None, inDom |-> old \/ s.dom.inPane])]

\* HeatLayer._startCrossfade
StartCrossfade(s, duration) ==
    IF s.snapshotCanvas = None THEN s
    ELSE LET h == NewHandle(s.timers)
         IN  [s EXCEPT !.snapshotCanvas =
                           Some([@[1] EXCEPT !.transition = Some(duration), !.opacity = 0]),
                       !.crossfadeTimer = Some(h),
                       !.timers = @ \cup {h}]

\* the callback _startCrossfade hands to setTimeout
CrossfadeCallback(s) ==
    [s EXCEPT !.crossfadeTimer = None,
              !.snapshotCanvas = IF @ = None THEN @
                                 ELSE Some([@[1] EXCEPT !.transition = None])]

\* _onMoveEnd that crossfades after every move, zoomed or not
OnMoveEndAlwaysFading(s, view) ==
    IF ~ s.map \/ ~ s.canvas THEN s
    ELSE LET duration == Coalesce(s.options.zoomCrossfadeDuration, DefaultCrossfade)
             fade     == duration > 0
             s1 == [s EXCEPT !.zooming = FALSE]
             topLeft == ContainerOriginToLayerPoint(view)
             Fade(s5) == IF fade THEN StartCrossfade(s5, duration) ELSE s5
             Place(s2) ==
                 LET s3 == [s2 EXCEPT !.dom.pos = topLeft,
                                      !.dom.transform = [offset |-> topLeft, scale |-> One]]
                     s4 == RendererResize(s3, view.size.x, view.size.y)
                 IN  IF s2.thrown # None THEN s2
                     ELSE IF s3.renderer = None THEN [s3 EXCEPT !.thrown = Some(TypeError)]
                     ELSE Then(LayerRedrawNow(s4, view), Fade)
         IN  Then(IF fade THEN TakeSnapshot(s1) ELSE s1, Place)

\* _onMoveEnd that takes the snapshot after the canvas was resized
OnMoveEndSnapshotAfterResize(s, view) ==
    IF ~ s.map \/ ~ s.canvas THEN s
    ELSE LET duration == Coalesce(s.options.zoomCrossfadeDuration, DefaultCrossfade)
             fade     == s.zooming /\ duration > 0
             s1 == [s EXCEPT !.zooming = FALSE]
             topLeft == ContainerOriginToLayerPoint(view)
             Fade(s5) == IF fade THEN StartCrossfade(s5, duration) ELSE s5
             Paint(s4) ==
                 IF s4.thrown # None THEN s4 ELSE Then(LayerRedrawNow(s4, view), Fade)
             Place(s2) ==
                 LET s3 == [s2 EXCEPT !.dom.pos = topLeft,
                                      !.dom.transform = [offset |-> topLeft, scale |-> One]]
                 IN  IF s3.renderer = None THEN [s3 EXCEPT !.thrown = Some(TypeError)]
                     ELSE Then(RendererResize(s3, view.size.x, view.size.y),
                               LAMBDA s4 : Paint(IF fade THEN TakeSnapshot(s4) ELSE s4))
         IN  Place(s1)

\* HeatLayer._onMoveEnd
OnMoveEnd(s, view) ==
    IF ~ s.map \/ ~ s.canvas THEN s
    ELSE LET wasZooming == s.zooming
             duration   == Coalesce(s.options.zoomCrossfadeDuration, DefaultCrossfade)
             fade       == wasZooming /\ duration > 0
             s1 == [s EXCEPT !.zooming = FALSE]
             topLeft == ContainerOriginToLayerPoint(view)
             Fade(s5) == IF fade THEN StartCrossfade(s5, duration) ELSE s5
             Place(s2) ==
                 LET s3 == [s2 EXCEPT !.dom.pos = topLeft,
                                      !.dom.transform = [offset |-> topLeft, scale |-> One]]
                     s4 == RendererResize(s3, view.size.x, view.size.y)
                 IN  IF s2.thrown # None THEN s2
                     \* this._renderer!.resize on a layer without renderer throws
                     ELSE IF s3.renderer = None THEN [s3 EXCEPT !.thrown = Some(TypeError)]
                     ELSE Then(LayerRedrawNow(s4, view), Fade)
         IN  Then(IF fade THEN TakeSnapshot(s1) ELSE s1, Place)

\* Math.round of a number with e = 0
RRound(a) == RFloor(RAdd(a, Rat(1, 2)))

\* HeatLayer._onZoomAnim, e = [zoom, center]
OnZoomAnim(s, view, e) ==
    IF ~ s.map \/ ~ s.canvas THEN s
    ELSE LET scale == IF e.zoom >= view.zoom THEN R(Pow2(e.zoom - view.zoom))
                      ELSE Rat(1, Pow2(view.zoom - e.zoom))
             \* the world pixel of the canvas's top left corner at the new zoom
             wx == RMul(R(s.dom.pos.x + view.origin.x), scale)
             wy == RMul(R(s.dom.pos.y + view.origin.y), scale)
             c  == Project(e.center, e.zoom)
             lt == ContainerOriginToLayerPoint(view)
             nx == RRound(RAdd(RAdd(RSub(wx, R(c.x)), Rat(view.size.x, 2)), R(lt.x)))
             ny == RRound(RAdd(RAdd(RSub(wy, R(c.y)), Rat(view.size.y, 2)), R(lt.y)))
         IN  [s EXCEPT !.zooming = TRUE,
                       !.dom.transform = [offset |-> Pt(nx, ny), scale |-> scale]]

\* onAdd that leaves the first recompute to the next frame
OnAddDeferred(s, view) ==
    LET s1 == [s EXCEPT !.map = TRUE]
        s2 == IF ~ s1.canvas THEN CreateCanvas(s1) ELSE s1
        s3 == IF s2.canvas THEN [s2 EXCEPT !.dom.inPane = TRUE] ELSE s2
        s4 == [s3 EXCEPT !.listening = @ \cup {"moveend", "zoomanim"}]
    IN  IF s2.thrown # None THEN s2 ELSE LayerRedraw(s4, view)

\* HeatLayer.onAdd
OnAdd(s, view) ==
    LET s1 == [s EXCEPT !.map = TRUE]
        s2 == IF ~ s1.canvas THEN CreateCanvas(s1) ELSE s1
        s3 == IF s2.canvas THEN [s2 EXCEPT !.dom.inPane = TRUE] ELSE s2
        s4 == [s3 EXCEPT !.listening = @ \cup {"moveend", "zoomanim"}]
    IN  IF s2.thrown # None THEN s2 ELSE OnMoveEnd(s4, view)

\* onRemove that leaves the layer's handlers subscribed on the map
OnRemoveStillListening(s) ==
    LET s1 == IF s.frame # None
              THEN [s EXCEPT !.rafQueue = @ \ {s.frame[1]}, !.frame = None, !.req = None]
              ELSE s
        s2 == ClearCrossfade(s1)
        s3 == [s2 EXCEPT !.snapshotCanvas = None]
        s4 == IF s3.canvas THEN [s3 EXCEPT !.dom.inPane = FALSE] ELSE s3
    IN  [s4 EXCEPT !.map = FALSE]

\* onRemove that leaves the pending frame with the browser
OnRemoveNoCancel(s) ==
    LET s2 == ClearCrossfade(s)
        s3 == [s2 EXCEPT !.snapshotCanvas = None]
        s4 == IF s3.canvas THEN [s3 EXCEPT !.dom.inPane = FALSE] ELSE s3
    IN  [s4 EXCEPT !.listening = @ \ {"moveend", "zoomanim"}, !.map = FALSE]

\* HeatLayer.onRemove, after which the map's removeLayer unsets the layer's _map
OnRemove(s) ==
    LET s1 == IF s.frame # None
              THEN [s EXCEPT !.rafQueue = @ \ {s.frame[1]}, !.frame = None, !.req = None]
              ELSE s
        s2 == ClearCrossfade(s1)
        s3 == [s2 EXCEPT !.snapshotCanvas = None]
        s4 == IF s3.canvas THEN [s3 EXCEPT !.dom.inPane = FALSE] ELSE s3
    IN  \* pane.removeChild of a canvas that is not a child of the pane throws,
        \* and removeLayer does not get to unset _map
        IF s3.canvas /\ ~ s3.dom.inPane THEN [s3 EXCEPT !.thrown = Some(NotFoundError)]
        ELSE [s4 EXCEPT !.listening = @ \ {"moveend", "zoomanim"}, !.map = FALSE]

(***************************************************************************)
(* The state                                                               *)
(***************************************************************************)
VARIABLES
    latlngs, options, map, canvas, renderer, frame, zooming, crossfadeTimer,
    snapshotCanvas, listening, dom, raster, rafQueue, timers,
    zoom, pane, size, origin, anim, context,
    rec, sinceTick, req, stale, thrown

layerVars == <<latlngs, options, map, canvas, renderer, frame, zooming, crossfadeTimer,
               snapshotCanvas, listening, dom, raster, rafQueue, timers,
               rec, sinceTick, req, stale, thrown>>

hostVars == <<zoom, pane, size, origin, anim, context>>

vars == <<layerVars, hostVars>>

\* the record the handlers work on
Cur ==
    [latlngs |-> latlngs, options |-> options, map |-> map, canvas |-> canvas,
     renderer |-> renderer, frame |-> frame, zooming |-> zooming,
     crossfadeTimer |-> crossfadeTimer, snapshotCanvas |-> snapshotCanvas,
     listening |-> listening, dom |-> dom, raster |-> raster, rafQueue |-> rafQueue,
     timers |-> timers, rec |-> rec, sinceTick |-> sinceTick, req |-> req,
     stale |-> stale, context |-> context, thrown |-> None]

Becomes(s) ==
    \E t \in {s} :
        /\ latlngs' = t.latlngs /\ options' = t.options /\ map' = t.map
        /\ canvas' = t.canvas /\ renderer' = t.renderer /\ frame' = t.frame
        /\ zooming' = t.zooming /\ crossfadeTimer' = t.crossfadeTimer
        /\ snapshotCanvas' = t.snapshotCanvas /\ listening' = t.listening
        /\ dom' = t.dom /\ raster' = t.raster /\ rafQueue' = t.rafQueue
        /\ timers' = t.timers /\ rec' = t.rec /\ sinceTick' = t.sinceTick
        /\ req' = t.req /\ stale' = t.stale /\ thrown' = t.thrown

\* the zoom levels of the map; the highest is map.getMaxZoom()
Zooms == 0..2

MapMaxZoom == CHOOSE z \in Zooms : \A y \in Zooms : y <= z

ViewOf(z, p, sz, o) == [zoom |-> z, pane |-> p, size |-> sz, origin |-> o, maxZoom |-> MapMaxZoom]

View == ViewOf(zoom, pane, size, origin)

\* the centre the map's views are set around
Home == [lat |-> 0, lng |-> 0]

\* the pixel origin a view reset leaves: the centre's pixel less half the size
ResetOrigin(z, sz) ==
    LET c == Project(Home, z) IN Pt(c.x - sz.x \div 2, c.y - sz.y \div 2)

\* the map fires an event the layer may be subscribed to
Fire(event, s, view, e) ==
    IF event \notin s.listening THEN s
    ELSE IF event = "moveend" THEN OnMoveEnd(s, view)
    ELSE OnZoomAnim(s, view, e)

(***************************************************************************)
(* new HeatLayer(latlngs, options)                                         *)
(***************************************************************************)
OptionKeys == {"radius", "blur", "minOpacity", "maxZoom", "max", "gradient",
               "zoomCrossfadeDuration"}

NoOptions == [k \in OptionKeys |-> None]

\* { radius: 25, blur: 15, minOpacity: 0.05, ...options }
ConstructorOptions(given) ==
    Assign([NoOptions EXCEPT !.radius = Some(DefaultRadius), !.blur = Some(DefaultBlur),
                             !.minOpacity = Some(DefaultMinOpacity)], given)

Constructed(pts, given, z, sz) ==
    /\ latlngs = pts
    /\ options = ConstructorOptions(given)
    /\ map = FALSE /\ canvas = FALSE /\ renderer = None /\ frame = None
    /\ zooming = FALSE /\ crossfadeTimer = None /\ snapshotCanvas = None
    /\ listening = {} /\ dom = None /\ raster = None
    /\ rafQueue = {} /\ timers = {}
    /\ zoom = z /\ pane = Pt(0, 0) /\ size = sz /\ origin = ResetOrigin(z, sz)
    /\ anim = None
    /\ rec = None /\ sinceTick = 0 /\ req = None /\ stale = FALSE /\ thrown = None

(***************************************************************************)
(* The operations                                                          *)
(***************************************************************************)
\* map.addLayer(layer)
AddTo ==
    /\ ~ map
    /\ Becomes(OnAdd(Cur, View))
    /\ UNCHANGED hostVars

\* map.removeLayer(layer)
Remove ==
    /\ map
    /\ Becomes(OnRemove(Cur))
    /\ UNCHANGED hostVars

\* a call made while the layer is attached awaits a recompute
Awaiting(s) == [s EXCEPT !.stale = @ \/ s.map]

\* layer.setLatLngs(pts)
SetLatLngs(pts) ==
    /\ Becomes(Awaiting(LayerSetLatLngs(Cur, View, pts)))
    /\ UNCHANGED hostVars

\* layer.addLatLng(p)
AddLatLng(p) ==
    /\ Becomes(Awaiting(LayerAddLatLng(Cur, View, p)))
    /\ UNCHANGED hostVars

\* layer.setOptions(partial)
SetOptions(partial) ==
    /\ Becomes(Awaiting(LayerSetOptions(Cur, View, partial)))
    /\ UNCHANGED hostVars

\* layer.redraw()
Redraw ==
    /\ Becomes(Awaiting(LayerRedraw(Cur, View)))
    /\ UNCHANGED hostVars

\* the callbacks the browser holds, run one after the other
RECURSIVE RunCallbacks(_, _, _)
RunCallbacks(s, view, n) ==
    IF n = 0 THEN s ELSE RunCallbacks(FrameCallback(s, view), view, n - 1)

\* a frame boundary: the browser runs the frame callbacks it holds
FrameTick ==
    LET n == Cardinality(rafQueue)
    IN  /\ Becomes(RunCallbacks([Cur EXCEPT !.rafQueue = {}, !.sinceTick = 0], View, n))
        /\ UNCHANGED hostVars

\* the timeout of a crossfade expires
TimerFire ==
    /\ timers # {}
    /\ \E h \in timers : Becomes(CrossfadeCallback([Cur EXCEPT !.timers = @ \ {h}]))
    /\ UNCHANGED hostVars

\* the user drags the map to pane position p; the map fires moveend
Pan(p) ==
    /\ anim = None
    /\ p # pane
    /\ pane' = p
    /\ Becomes(Fire("moveend", Cur, ViewOf(zoom, p, size, origin), None))
    /\ UNCHANGED <<zoom, size, origin, anim, context>>

\* map.setView(Home, z) without animation: the view is reset, the map fires moveend
SetZoom(z) ==
    /\ anim = None
    /\ z # zoom
    /\ zoom' = z /\ pane' = Pt(0, 0) /\ origin' = ResetOrigin(z, size)
    /\ Becomes(Fire("moveend", Cur, ViewOf(z, Pt(0, 0), size, ResetOrigin(z, size)), None))
    /\ UNCHANGED <<size, anim, context>>

\* map.setView(Home, z), animated: the map fires zoomanim and later ends the zoom
ZoomAnimStart(z) ==
    /\ anim = None
    /\ z # zoom
    /\ anim' = Some(z)
    /\ Becomes(Fire("zoomanim", Cur, View, [zoom |-> z, center |-> Home]))
    /\ UNCHANGED <<zoom, pane, size, origin, context>>

\* the zoom animation ends: the view is reset at the new zoom, the map fires moveend
ZoomAnimEnd ==
    /\ anim # None
    /\ LET z == anim[1]
       IN  /\ zoom' = z /\ pane' = Pt(0, 0) /\ origin' = ResetOrigin(z, size)
           /\ Becomes(Fire("moveend", Cur, ViewOf(z, Pt(0, 0), size, ResetOrigin(z, size)), None))
    /\ anim' = None
    /\ UNCHANGED <<size, context>>

\* the container gets size sz and map.invalidateSize({pan: false}) fires moveend
Resize(sz) ==
    /\ anim = None
    /\ sz # size
    /\ size' = sz
    /\ Becomes(Fire("moveend", Cur, ViewOf(zoom, pane, sz, origin), None))
    /\ UNCHANGED <<zoom, pane, origin, anim, context>>

(***************************************************************************)
(* The inputs                                                              *)
(***************************************************************************)
\* the longest point set
MaxPoints == 2

\* the container's size once it is laid out
FullSize == Pt(200, 100)

P08 == Arr3(0, 0, Rat(8, 10))

P05 == Arr3(5, -20, Rat(5, 10))

P10 == LatLng(-5, 20, None)

\* shares the grid cell of P08 at every zoom
PNear == Arr2(0, 1)

\* east of every view, with the highest intensity
PFar == Arr3(0, 300, R(2))

PZero == Arr3(10, 10, Zero)

\* a partial options object: the keys it has, with their values
Partial(keys, vals) == [k \in keys |-> vals[k]]

(***************************************************************************)
(* Spec: the scheduling of recomputes.  A layer is attached to and         *)
(* detached from a map, its points and options are set, frames pass and    *)
(* the map is panned.                                                      *)
(***************************************************************************)
DataSets == {<<P08>>, <<P10, PFar>>}

AddedPoints == {PNear}

Partials == {Partial({"max"}, [max |-> Some(R(2))])}

PanePositions == {Pt(0, 0), Pt(-130, 0)}

Init == Constructed(<<P08>>, Partial({}, <<>>), 0, FullSize) /\ context = TRUE

Next ==
    \/ AddTo
    \/ Remove
    \/ \E pts \in DataSets : SetLatLngs(pts)
    \/ \E p \in AddedPoints : Len(latlngs) < MaxPoints /\ AddLatLng(p)
    \/ \E partial \in Partials : SetOptions(partial)
    \/ Redraw
    \/ FrameTick
    \/ \E p \in PanePositions : Pan(p)

Spec == Init /\ [][Next]_vars

(***************************************************************************)
(* SpecR: the recompute on many inputs.  The layer is constructed with one *)
(* of several point sets and options, on a map of some zoom and size, is   *)
(* attached, and recomputes as the map is panned and frames pass.          *)
(***************************************************************************)
Scenario == <<P08, P05, P10>>

RDataSets == {<<>>, Scenario, <<PZero>>, <<P08, PNear>>, <<P10, PFar>>}

RGivenOptions ==
    {Partial({}, <<>>),
     Partial({"max"}, [max |-> Some(R(2))]),
     Partial({"max"}, [max |-> Some(Zero)]),
     Partial({"maxZoom"}, [maxZoom |-> Some(14)])}

RPanePositions == {Pt(0, 0), Pt(-130, 0), Pt(7, -30)}

Sizes == {Pt(0, 0), FullSize}

InitR ==
    \E pts \in RDataSets, given \in RGivenOptions, z \in Zooms, sz \in Sizes :
        Constructed(pts, given, z, sz) /\ context = TRUE

NextR ==
    \/ AddTo
    \/ Redraw
    \/ FrameTick
    \/ \E p \in RPanePositions : Pan(p)

SpecR == InitR /\ [][NextR]_vars

(***************************************************************************)
(* What the claims speak of                                                *)
(***************************************************************************)
\* the last recompute that got past its guards
Last == rec[1]

\* a recompute got past its guards in this step
Recomputed == rec' # None /\ (rec = None \/ rec'[1].n # rec[1].n)

\* the greatest number of a non-empty finite set of numbers
MaxOf(S) == CHOOSE m \in S : \A x \in S : RLeq(x, m)

Intensities(pts) == {GetIntensity(pts[k]) : k \in 1..Len(pts)}

\* point p is in the padded bounds of recompute r
InPadded(r, p) == BoundsContain(PaddedBounds(r.rend, r.in.view), ToLatLng(p))

\* the grid cell of point p in recompute r
KeyOf(r, p) ==
    LET lp == LatLngToLayerPoint(r.in.view, ToLatLng(p))
    IN  <<lp.x \div CellSize(r.rend), lp.y \div CellSize(r.rend)>>

\* the pixel of point p in the viewport of recompute r
PixelOf(r, p) ==
    LET lp == LatLngToLayerPoint(r.in.view, ToLatLng(p))
    IN  Pt(lp.x + r.in.view.pane.x, lp.y + r.in.view.pane.y)

\* the indices of the points of recompute r that are accumulated into cell key
Members(r, key) ==
    {k \in 1..Len(r.in.latlngs) :
        InPadded(r, r.in.latlngs[k]) /\ KeyOf(r, r.in.latlngs[k]) = key}

\* the sum of intensity * v over the points with indices in K
RECURSIVE SumScaled(_, _)
SumScaled(r, K) ==
    IF K = {} THEN Zero
    ELSE LET k == CHOOSE k \in K : TRUE
         IN  RAdd(RMul(GetIntensity(r.in.latlngs[k]), r.v), SumScaled(r, K \ {k}))

\* the blob of the j-th cell of the grid of recompute r, whose sum is not 0
BlobOfCell(r, j) == r.blobs[Cardinality({m \in 1..j : r.grid[m].si # Zero})]

(***************************************************************************)
(* C1: with no manual cap, the effectiveMax of a recompute is the greatest *)
(* intensity * v over all points of the point set, in the padded bounds or *)
(* not, floored at 1e-10; and a recompute that follows a recompute of the  *)
(* same point set, options and zoom at another pane position uses the same *)
(* effectiveMax.                                                           *)
(***************************************************************************)
C1_MaxOverAll ==
    (rec # None /\ Last.in.options.max = None) =>
        Last.effectiveMax =
            MaxOf({RMul(i, Last.v) : i \in Intensities(Last.in.latlngs)} \cup {Epsilon})

C1_SameAfterPan ==
    (/\ Recomputed /\ rec # None
     /\ rec'[1].in.options.max = None
     /\ rec'[1].in.latlngs = Last.in.latlngs
     /\ rec'[1].in.options = Last.in.options
     /\ rec'[1].in.view.zoom = Last.in.view.zoom
     /\ rec'[1].in.view.pane # Last.in.view.pane)
    => rec'[1].effectiveMax = Last.effectiveMax

C1_AutoMaxOverAllPoints == [][C1_MaxOverAll' /\ C1_SameAfterPan]_vars

\* a recompute whose maximum is set by a point outside the padded bounds
C1_Witness ==
    /\ rec # None /\ Last.in.options.max = None
    /\ \E k \in 1..Len(Last.in.latlngs) :
          /\ ~ InPadded(Last, Last.in.latlngs[k])
          /\ Last.effectiveMax = RMul(GetIntensity(Last.in.latlngs[k]), Last.v)
          /\ \A j \in 1..Len(Last.in.latlngs) :
                InPadded(Last, Last.in.latlngs[j]) =>
                    RLess(RMul(GetIntensity(Last.in.latlngs[j]), Last.v), Last.effectiveMax)
    /\ Last.blobs # <<>>
    /\ Last.in.view.pane # Pt(0, 0)

(***************************************************************************)
(* C2: with no manual cap, a point that is in the padded bounds and alone  *)
(* in its grid cell gives a blob at its pixel of intensity                 *)
(* intensity_i / max_j intensity_j, whatever the zoom factor v; the        *)
(* point set with intensities 0.8, 0.5, 1.0, each point in a cell of its   *)
(* own, gives the blob intensities 0.8, 0.5, 1.0.                          *)
(***************************************************************************)
AloneInCell(r, k) ==
    /\ InPadded(r, r.in.latlngs[k])
    /\ Members(r, KeyOf(r, r.in.latlngs[k])) = {k}

C2_NormalizedIndependentOfZoom ==
    (rec # None /\ Last.in.options.max = None) =>
        /\ \A k \in 1..Len(Last.in.latlngs) :
              (AloneInCell(Last, k) /\ GetIntensity(Last.in.latlngs[k]) # Zero) =>
                  \E m \in 1..Len(Last.blobs) :
                      Last.blobs[m] =
                          [x |-> R(PixelOf(Last, Last.in.latlngs[k]).x),
                           y |-> R(PixelOf(Last, Last.in.latlngs[k]).y),
                           i |-> RDiv(GetIntensity(Last.in.latlngs[k]),
                                      MaxOf(Intensities(Last.in.latlngs)))]
        /\ (Last.in.latlngs = Scenario /\ \A k \in 1..3 : AloneInCell(Last, k)) =>
              [m \in 1..Len(Last.blobs) |-> Last.blobs[m].i] = <<Rat(8, 10), Rat(5, 10), One>>

\* the scenario two zoom levels below the zoom of full intensity
C2_Witness ==
    /\ rec # None /\ Last.in.options.max = None
    /\ Last.in.latlngs = Scenario
    /\ Last.v = Rat(1, 4)
    /\ Last.effectiveMax = Rat(1, 4)
    /\ [m \in 1..Len(Last.blobs) |-> Last.blobs[m].i] = <<Rat(8, 10), Rat(5, 10), One>>

(***************************************************************************)
(* C8: the effectiveMax of a recompute is strictly positive for every      *)
(* point set and every option configuration.  The statement as written is  *)
(* C8_AlwaysPositive; a configured cap of 0 is used as it is.  What holds: *)
(* the effectiveMax is strictly positive whenever no cap is configured or  *)
(* the configured cap is positive, an empty point set and a point set of   *)
(* zero intensities included.                                              *)
(***************************************************************************)
C8_AlwaysPositive == rec # None => RLess(Zero, Last.effectiveMax)

C8_PositiveUnlessCapIsNot ==
    (/\ rec # None
     /\ Last.in.options.max # None => RLess(Zero, Last.in.options.max[1]))
    => RLess(Zero, Last.effectiveMax)

\* a recompute of no intensity at all, which the floor alone keeps positive
C8_Witness ==
    /\ rec # None /\ Last.in.options.max = None
    /\ Intensities(Last.in.latlngs) \subseteq {Zero}
    /\ Last.effectiveMax = Epsilon

(***************************************************************************)
(* C9: with no manual cap and a non-empty point set, every blob intensity  *)
(* of a recompute is at most 1, and the cell of a point that attains the   *)
(* greatest intensity has blob intensity 1.                                *)
(***************************************************************************)
C9_BlobsAtMostOne ==
    (rec # None /\ Last.in.options.max = None /\ Last.in.latlngs # <<>>) =>
        /\ \A m \in 1..Len(Last.blobs) : RLeq(Last.blobs[m].i, One)
        /\ \A j \in 1..Len(Last.grid) :
              (\E k \in Members(Last, Last.grid[j].key) :
                  /\ GetIntensity(Last.in.latlngs[k]) = MaxOf(Intensities(Last.in.latlngs))
                  /\ GetIntensity(Last.in.latlngs[k]) # Zero)
              => BlobOfCell(Last, j).i = One

(***************************************************************************)
(* C10: with a manual cap configured, the effectiveMax of a recompute is   *)
(* the cap, whatever the data, and the blob of each cell has intensity     *)
(* (sum of intensity * v over the points of the cell) / cap.               *)
(***************************************************************************)
C10_CapUsedAsIs ==
    (rec # None /\ Last.in.options.max # None) =>
        /\ Last.effectiveMax = Last.in.options.max[1]
        /\ \A j \in 1..Len(Last.grid) :
              Last.grid[j].si # Zero =>
                  BlobOfCell(Last, j).i =
                      RDiv(SumScaled(Last, Members(Last, Last.grid[j].key)),
                           Last.in.options.max[1])

\* a capped recompute of data whose greatest scaled intensity is not the cap,
\* with two points in one cell
C10_Witness ==
    /\ rec # None /\ Last.in.options.max = Some(R(2))
    /\ Last.blobs # <<>>
    /\ MaxOf({RMul(i, Last.v) : i \in Intensities(Last.in.latlngs)}) # R(2)
    /\ \E j \in 1..Len(Last.grid) : Last.grid[j].cnt = 2

(***************************************************************************)
(* Frame scheduling, as the claims speak of it                             *)
(***************************************************************************)
\* the pending frame callback ran in this step
FrameRan == frame # None /\ frame' = None /\ map'

\* a call of the layer's API was made while a frame was pending
CallWhilePending == frame # None /\ map /\ map' /\ frame' = frame /\ pane' = pane

\* the map fired moveend at an attached layer
MoveEnded == map /\ pane' # pane

(***************************************************************************)
(* C3: at most one frame callback is outstanding at any time, it is the    *)
(* one the layer holds the handle of, and when it runs the calls made      *)
(* since it was requested are served by exactly one recompute.             *)
(***************************************************************************)
C3_OneOutstanding ==
    /\ Cardinality(rafQueue) <= 1
    /\ frame # None => rafQueue = {frame[1]}
    /\ frame = None => rafQueue = {}

C3_AtMostOneOutstandingFrame ==
    [][/\ C3_OneOutstanding /\ C3_OneOutstanding'
       /\ FrameRan => (sinceTick' = 1 /\ Recomputed /\ rafQueue' = {})]_vars

\* one recompute has served a setLatLngs and a setOptions made after the
\* frame was requested
C3_Witness ==
    /\ rec # None /\ {"latlngs", "options"} \subseteq Last.late
    /\ sinceTick = 1 /\ frame = None /\ ~ stale

(***************************************************************************)
(* C4: at most one recompute executes between frame boundaries, whatever   *)
(* the triggers.  The statement as written is C4_OneRecomputePerFrame; the *)
(* moveend handler recomputes at once, each time the event fires.  What    *)
(* holds: a call of the API while a frame is pending causes no recompute   *)
(* and no further request, the frame callback accounts for exactly one     *)
(* recompute at a frame boundary, and each moveend adds a recompute of its *)
(* own and leaves the pending frame as it is.                              *)
(***************************************************************************)
C4_OneRecomputePerFrame == sinceTick <= 1

C4_OnlyScheduledRecomputesCoalesce ==
    [][/\ CallWhilePending =>
              (sinceTick' = sinceTick /\ rec' = rec /\ rafQueue' = rafQueue)
       /\ FrameRan => sinceTick' = 1
       /\ MoveEnded =>
              (sinceTick' = Min(sinceTick + 1, 2) /\ Recomputed /\ frame' = frame)]_vars

\* two recomputes since the last frame boundary, and the frame still pending
C4_Witness == sinceTick = 2 /\ frame # None /\ map /\ stale = FALSE

(***************************************************************************)
(* C5: removal cancels the pending frame; the browser holds no callback of *)
(* a detached layer, and nothing is recomputed or drawn while the layer is *)
(* detached.                                                               *)
(***************************************************************************)
C5_RemoveCancelsFrame ==
    [][/\ (map /\ ~ map') => (frame' = None /\ rafQueue' = {} /\ rec' = rec)
       /\ ~ map' => (frame' = None /\ rafQueue' = {})
       /\ (~ map /\ ~ map') => (rec' = rec /\ raster' = raster)]_vars

\* the layer was removed while a call awaited its recompute
C5_Witness == ~ map /\ stale /\ frame = None /\ rafQueue = {} /\ rec # None

(***************************************************************************)
(* C6: the recompute of a frame callback reads the point set, the options  *)
(* and the viewport as they are when the callback runs, not as they were   *)
(* when the frame was requested: after setLatLngs(A), setLatLngs(B) the    *)
(* recompute uses B.                                                       *)
(***************************************************************************)
C6_ReadsStateAtCallback ==
    [][FrameRan =>
          /\ rec' # None
          /\ rec'[1].in = [latlngs |-> latlngs', options |-> options', view |-> View']
          /\ latlngs' = latlngs /\ options' = options /\ View' = View]_vars

\* a frame callback has recomputed a point set other than the one held when
\* the frame was requested
C6_Witness ==
    /\ rec # None /\ "latlngs" \in Last.late
    /\ Last.in.latlngs = latlngs
    /\ frame = None /\ map

(***************************************************************************)
(* C7: a call that changes the point set or the options of an attached     *)
(* layer, or asks for a redraw, is followed by a run of the recompute      *)
(* unless the layer is removed first, given that the browser keeps running *)
(* the frame callbacks it holds.                                           *)
(***************************************************************************)
\* the browser keeps running frame callbacks: a frame that stays pending is
\* followed by a frame boundary.  This is what WF_vars(FrameTick) asks of a
\* pending frame, with the enabling condition written out.
FramesKeepComing == <>[](frame # None) => []<><<FrameTick>>_vars

\* the calls of the API, removal and re-attachment, and frame boundaries
NextF ==
    \/ AddTo
    \/ Remove
    \/ \E pts \in DataSets : SetLatLngs(pts)
    \/ \E p \in AddedPoints : Len(latlngs) < MaxPoints /\ AddLatLng(p)
    \/ \E partial \in Partials : SetOptions(partial)
    \/ Redraw
    \/ FrameTick

FairSpec == Init /\ [][NextF]_vars /\ FramesKeepComing

C11_RecomputeIdempotent ==
    [][Recomputed =>
          /\ latlngs' = latlngs /\ options' = options
          /\ renderer # None =>
                 /\ renderer'[1].radius = renderer[1].radius
                 /\ renderer'[1].blur = renderer[1].blur
          /\ (rec # None /\ rec'[1].in = Last.in /\ rec'[1].rend = Last.rend) =>
                 /\ rec'[1].blobs = Last.blobs
                 /\ rec'[1].grid = Last.grid
                 /\ rec'[1].effectiveMax = Last.effectiveMax]_vars

\* a frame callback has recomputed what the recompute before it had computed,
\* nothing having changed since its frame was requested
C11_Witness ==
    /\ rec # None /\ Last.n = 1 /\ Last.late = {}
    /\ sinceTick = 1 /\ frame = None
    /\ Len(Last.blobs) >= 2
(***************************************************************************)
(* C12: a pan at the same zoom does not change the grouping: two points of *)
(* the point set that are in the padded bounds of the recompute before the *)
(* pan and of the recompute after it share a grid cell after the pan if    *)
(* and only if they did before; and when the same points are in the padded *)
(* bounds before and after, the cells are the same with the same counts.   *)
(***************************************************************************)
\* the recompute r puts the points j and k of its point set in one cell
Together(r, j, k) ==
    Len(Grid(<<r.in.latlngs[j], r.in.latlngs[k]>>, r.in.options, r.rend, r.in.view)) = 1

\* the recompute of this step follows one of the same point set, options, zoom,
\* size, radius and blur at another pane position
RecomputedAfterPan ==
    /\ Recomputed /\ rec # None
    /\ rec'[1].in.latlngs = Last.in.latlngs
    /\ rec'[1].in.options = Last.in.options
    /\ rec'[1].rend = Last.rend
    /\ rec'[1].in.view.zoom = Last.in.view.zoom
    /\ rec'[1].in.view.size = Last.in.view.size
    /\ rec'[1].in.view.pane # Last.in.view.pane

C12_PanKeepsGrouping ==
    [][RecomputedAfterPan =>
          LET before == Last
              after  == rec'[1]
              n      == Len(before.in.latlngs)
              both   == {k \in 1..n : InPadded(before, before.in.latlngs[k])
                                      /\ InPadded(after, after.in.latlngs[k])}
          IN  /\ \A j, k \in both : Together(after, j, k) <=> Together(before, j, k)
              /\ both = 1..n =>
                    [c \in 1..Len(after.grid) |-> <<after.grid[c].key, after.grid[c].cnt>>]
                    = [c \in 1..Len(before.grid) |-> <<before.grid[c].key, before.grid[c].cnt>>]]_vars

\* a recompute after a pan holds two points in one cell, which their pixels in
\* the viewport would put in two
C12_Witness ==
    /\ rec # None /\ Last.in.view.pane # Pt(0, 0) /\ Len(Last.in.latlngs) = 2
    /\ Len(Last.grid) = 1 /\ Last.grid[1].cnt = 2
    /\ PixelOf(Last, Last.in.latlngs[1]).x \div CellSize(Last.rend)
           # PixelOf(Last, Last.in.latlngs[2]).x \div CellSize(Last.rend)
(***************************************************************************)
(* C13: in each recompute every point of the point set within the viewport *)
(* padded by radius + blur pixels is accumulated into exactly one cell of  *)
(* the grid, the one of its layer pixel, a point outside is accumulated    *)
(* into none, so the counts of the cells sum to the number of points       *)
(* within; and the recompute leaves the point set as it was.               *)
(***************************************************************************)
\* the pixel of point p is in the viewport of recompute r padded by r pixels
InPaddedViewport(r, p) ==
    LET px  == PixelOf(r, p)
        pad == FullRadius(r.rend)
    IN  /\ -pad <= px.x /\ px.x <= r.in.view.size.x + pad
        /\ -pad <= px.y /\ px.y <= r.in.view.size.y + pad

RECURSIVE SumCounts(_, _)
SumCounts(grid, k) == IF k > Len(grid) THEN 0 ELSE grid[k].cnt + SumCounts(grid, k + 1)

C13_CountsOfLast ==
    rec # None =>
        LET within == {k \in 1..Len(Last.in.latlngs) : InPaddedViewport(Last, Last.in.latlngs[k])}
        IN  /\ SumCounts(Last.grid, 1) = Cardinality(within)
            /\ \A c \in 1..Len(Last.grid) :
                  Last.grid[c].cnt =
                      Cardinality({k \in within : KeyOf(Last, Last.in.latlngs[k]) = Last.grid[c].key})
            /\ \A c, d \in 1..Len(Last.grid) : Last.grid[c].key = Last.grid[d].key => c = d
            /\ \A k \in within : \E c \in 1..Len(Last.grid) :
                  Last.grid[c].key = KeyOf(Last, Last.in.latlngs[k])

C13_EachPointInOneCell ==
    [][Recomputed => (C13_CountsOfLast' /\ latlngs' = latlngs)]_vars

\* a recompute that skipped a point outside the padded viewport, which is
\* still in the point set
C13_Witness ==
    /\ rec # None /\ Last.in.latlngs = latlngs
    /\ \E k \in 1..Len(latlngs) : ~ InPaddedViewport(Last, latlngs[k])
    /\ \E k \in 1..Len(latlngs) : InPaddedViewport(Last, latlngs[k])
    /\ SumCounts(Last.grid, 1) = Len(latlngs) - 1
(***************************************************************************)
(* SpecO: the options.  A layer is attached and detached, its options are  *)
(* set in part, and frames pass.                                           *)
(***************************************************************************)
TwoStops == "{0: 'blue', 1: 'red'}"

OPartials ==
    {Partial({"radius", "blur"}, [radius |-> Some(30), blur |-> Some(10)]),
     Partial({"gradient"}, [gradient |-> Some(TwoStops)]),
     Partial({"minOpacity", "max"}, [minOpacity |-> Some(Rat(1, 2)), max |-> Some(R(2))]),
     Partial({"radius"}, [radius |-> Some(DefaultRadius)])}

NextO ==
    \/ AddTo
    \/ Remove
    \/ \E partial \in OPartials : SetOptions(partial)
    \/ FrameTick

SpecO == Init /\ [][NextO]_vars

(***************************************************************************)
(* C14: setOptions(partial) merges onto the options: every field partial   *)
(* names reads back as given, with radius 30 and blur 10 after             *)
(* setOptions({radius: 30, blur: 10}), from the layer's options and, when  *)
(* there is one, from the renderer; every field it does not name keeps its *)
(* value.                                                                  *)
(***************************************************************************)
C14_SetOptionsMerges ==
    [][\A partial \in OPartials :
          SetOptions(partial) =>
              /\ \A k \in DOMAIN partial : options'[k] = partial[k]
              /\ \A k \in OptionKeys \ DOMAIN partial : options'[k] = options[k]
              /\ renderer' # None =>
                    /\ Some(renderer'[1].radius) = options'.radius
                    /\ Some(renderer'[1].blur) = options'.blur
                    /\ Some(renderer'[1].minOpacity) = options'.minOpacity
              /\ {"radius", "blur"} \subseteq DOMAIN partial =>
                    /\ options'.radius = Some(30) /\ options'.blur = Some(10)
                    /\ renderer' # None =>
                          (renderer'[1].radius = 30 /\ renderer'[1].blur = 10)]_vars

\* radius and blur were set on an attached layer whose gradient and cap had
\* been set before, and those are as they were set
C14_Witness ==
    /\ options.radius = Some(30) /\ options.blur = Some(10)
    /\ options.gradient = Some(TwoStops) /\ options.max = Some(R(2))
    /\ renderer # None /\ renderer[1].radius = 30 /\ renderer[1].blur = 10
    /\ renderer[1].gradient = TwoStops
(***************************************************************************)
(* C15: a stamp the renderer holds was built from its radius and blur, and *)
(* a palette it holds from its gradient, so a draw that uses them uses     *)
(* current ones; a setOptions that changes radius or blur leaves no stamp, *)
(* one that changes the gradient leaves no palette, and setOptions draws   *)
(* nothing: the stamp and the palette are built by the next draw that      *)
(* needs them.                                                             *)
(***************************************************************************)
C15_CachesCurrent ==
    renderer # None =>
        /\ renderer[1].circle # None =>
              renderer[1].circle[1] = [radius |-> renderer[1].radius, blur |-> renderer[1].blur]
        /\ renderer[1].palette # None => renderer[1].palette[1] = renderer[1].gradient

C15_CachesInvalidatedLazily ==
    [][/\ C15_CachesCurrent /\ C15_CachesCurrent'
       /\ (Recomputed /\ rec'[1].blobs # <<>>) =>
              /\ \A k \in 1..Len(raster'.stamps) :
                    raster'.stamps[k].circle =
                        [radius |-> renderer'[1].radius, blur |-> renderer'[1].blur]
              /\ raster'.palette = Some(renderer'[1].gradient)
       /\ \A partial \in OPartials :
              (SetOptions(partial) /\ renderer # None) =>
                  /\ raster' = raster
                  /\ (renderer'[1].radius # renderer[1].radius
                         \/ renderer'[1].blur # renderer[1].blur)
                     => renderer'[1].circle = None
                  /\ renderer'[1].gradient # renderer[1].gradient
                     => renderer'[1].palette = None]_vars

\* a draw has stamped with a stamp built after radius and blur were set, and
\* coloured with a palette built after the gradient was set
C15_Witness ==
    /\ renderer # None /\ raster # None /\ raster.stamps # <<>>
    /\ renderer[1].circle = Some([radius |-> 30, blur |-> 10])
    /\ raster.stamps[1].circle = [radius |-> 30, blur |-> 10]
    /\ renderer[1].palette = Some(TwoStops)
    /\ raster.palette = Some(TwoStops)
(***************************************************************************)
(* SpecE: point sets that come and go.  The point set of an attached layer *)
(* is replaced by an empty one, by one out of view and by one in view, as  *)
(* frames pass and the map's container changes size.                       *)
(***************************************************************************)
EDataSets == {<<>>, <<PFar>>, <<P08>>}

\* a container that is not laid out, one without height, one that is laid out
ESizes == {Pt(0, 0), Pt(200, 0), FullSize}

NextE ==
    \/ AddTo
    \/ \E pts \in EDataSets : SetLatLngs(pts)
    \/ FrameTick
    \/ \E sz \in ESizes : Resize(sz)

SpecE == Init /\ [][NextE]_vars

(***************************************************************************)
(* C16: a recompute of an empty point set, or of a point set with no point *)
(* in the padded viewport, gives the renderer an empty blob list, and      *)
(* after the draw of an empty blob list every pixel of the raster is       *)
(* transparent.                                                            *)
(***************************************************************************)
C16_EmptyClears ==
    [][Recomputed =>
          /\ (\A k \in 1..Len(rec'[1].in.latlngs) :
                 ~ InPaddedViewport(rec'[1], rec'[1].in.latlngs[k]))
             => rec'[1].blobs = <<>>
          /\ rec'[1].blobs = <<>> => raster' = ClearedRaster]_vars

\* a frame callback has recomputed a point set out of view, set while the
\* raster showed a point, and the raster is clear
C16_Witness ==
    /\ rec # None /\ Last.in.latlngs = <<PFar>> /\ "latlngs" \in Last.late
    /\ Last.blobs = <<>> /\ Last.grid = <<>>
    /\ raster = ClearedRaster /\ sinceTick = 1
(***************************************************************************)
(* C17: while the viewport's width or height is 0, a run of the recompute  *)
(* returns before it aggregates anything: nothing is recomputed, the       *)
(* renderer draws nothing and keeps what it holds, and the raster is as it *)
(* was or as the resize of the canvas clears it.                           *)
(***************************************************************************)
C17_ZeroSizeAborts ==
    [][(size'.x = 0 \/ size'.y = 0) =>
          /\ ~ Recomputed /\ rec' = rec
          /\ renderer # None => renderer' = renderer
          /\ raster' \in {raster, ClearedRaster}]_vars

\* a frame callback has run for a point set given to a layer whose viewport
\* has no height: the last recompute is still the one of the point set before
C17_Witness ==
    /\ map /\ size.x # 0 /\ size.y = 0
    /\ rec # None /\ Last.in.latlngs # latlngs /\ Last.in.view.size = FullSize
    /\ ~ stale /\ sinceTick = 1 /\ frame = None
    /\ raster = ClearedRaster
(***************************************************************************)
(* SpecC: browsers with and without a 2d context.  The layer is attached   *)
(* and detached, its points are set, it is asked to redraw, frames pass    *)
(* and the map is panned.                                                  *)
(***************************************************************************)
InitC ==
    \E ctx \in BOOLEAN :
        Constructed(<<P08>>, Partial({}, <<>>), 0, FullSize) /\ context = ctx

NextC ==
    \/ AddTo
    \/ Remove
    \/ \E pts \in DataSets : SetLatLngs(pts)
    \/ Redraw
    \/ FrameTick
    \/ \E p \in PanePositions : Pan(p)

SpecC == InitC /\ [][NextC]_vars

(***************************************************************************)
(* C20: when the canvas gives no 2d context, the construction of the       *)
(* renderer throws: the layer never holds a renderer, the attachment that  *)
(* created the canvas throws that error to its caller, and it leaves       *)
(* nothing behind that would try again: no frame requested, no timer, no   *)
(* event subscribed, nothing recomputed.  With a context the attachment    *)
(* throws nothing and the layer holds a renderer.                          *)
(***************************************************************************)
C20_NoContextThrows ==
    [][/\ ~ context' => renderer' = None
       /\ (~ map /\ map' /\ ~ canvas /\ ~ context) =>
              /\ thrown' = Some(NoContextError)
              /\ listening' = {} /\ rafQueue' = {} /\ timers' = {} /\ frame' = None
              /\ rec' = None
       /\ (~ map /\ map' /\ context) => (thrown' = None /\ renderer' # None)
       /\ thrown' = Some(NoContextError) => (~ map /\ map' /\ ~ canvas)]_vars

\* the attachment has thrown for want of a 2d context
C20_Witness ==
    /\ ~ context /\ map /\ canvas /\ renderer = None
    /\ thrown = Some(NoContextError)
(***************************************************************************)
(* SpecZ: animated zooms.  The layer is attached and detached, the map     *)
(* zooms with animation, the point set is set, frames pass and crossfade   *)
(* timers expire.                                                          *)
(***************************************************************************)
ZDataSets == {<<P10>>}

NextZ ==
    \/ AddTo
    \/ Remove
    \/ \E pts \in ZDataSets : SetLatLngs(pts)
    \/ FrameTick
    \/ \E z \in Zooms : ZoomAnimStart(z)
    \/ ZoomAnimEnd
    \/ TimerFire

SpecZ == Init /\ [][NextZ]_vars

(***************************************************************************)
(* C18: from the zoomanim of a zoom transition to the moveend that ends    *)
(* it, nothing is recomputed and nothing is drawn, whatever is called and  *)
(* whatever frame callback runs: the raster is the one the transition      *)
(* began with, under another transform.                                    *)
(***************************************************************************)
C18_NoRecomputeWhileZooming ==
    [][(map /\ map' /\ zooming /\ zooming' /\ anim # None /\ anim' # None) =>
          (~ Recomputed /\ rec' = rec /\ raster' = raster)]_vars

(***************************************************************************)
(* C19: a pending crossfade timer is cancelled when the layer is detached  *)
(* and when a zoom transition starts: right after either, the layer holds  *)
(* no timer and the browser none of its timeouts.                          *)
(***************************************************************************)
C19_CrossfadeTimerCancelled ==
    [][/\ (map /\ ~ map') => (crossfadeTimer' = None /\ timers' = {})
       /\ (map /\ map' /\ anim = None /\ anim' # None) =>
              (crossfadeTimer' = None /\ timers' = {})]_vars
(***************************************************************************)
(* C21: after a draw of a blob list that is not empty, every pixel of the  *)
(* raster whose alpha a after the stamping is not 0 has the red, green and *)
(* blue of entry a of the palette and the alpha a of the stamping; a pixel *)
(* whose alpha is 0 is as the stamping left it, transparent black.         *)
(***************************************************************************)
\* the red, green and blue of entry a of the palette of a gradient
PaletteEntry(gradient, a) ==
    GradientAt(GradientStops(gradient), Rat(2 * a + 1, 2 * PaletteLength))

C21_RecoloredByAlpha ==
    (raster # None /\ raster.stamps # <<>> /\ raster.palette # None) =>
        \A q \in SamplePixels :
            LET stamped == StampedPixels(raster.stamps, 1, dom.size, ClearedPixels)[q]
                px      == raster.pixels[q]
            IN  /\ px.a = stamped.a
                /\ stamped.a # 0 =>
                       <<px.r, px.g, px.b>> = PaletteEntry(raster.palette[1], stamped.a)
                /\ stamped.a = 0 => px = stamped

\* a raster with a pixel that is neither transparent nor opaque and has the
\* colour of its alpha, and a pixel no stamp has reached
C21_Witness ==
    /\ raster # None /\ raster.stamps # <<>> /\ raster.palette # None
    /\ \E q \in SamplePixels :
          /\ raster.pixels[q].a \notin {0, Byte}
          /\ <<raster.pixels[q].r, raster.pixels[q].g, raster.pixels[q].b>> # <<0, 0, 0>>
    /\ \E q \in SamplePixels : raster.pixels[q] = TransparentBlack
(***************************************************************************)
(* SpecF: the forms of a point.  The layer is constructed with one of      *)
(* several point sets that hold the same positions and intensities as      *)
(* [lat, lng], [lat, lng, intensity] and L.LatLng values, with and without *)
(* an alt, is attached, and recomputes as the map is panned and frames     *)
(* pass.                                                                   *)
(***************************************************************************)
FDataSets ==
    {<<Arr3(0, 0, One), Arr3(5, -20, Rat(1, 2)), Arr3(-5, 20, Zero)>>,
     <<Arr2(0, 0), LatLng(5, -20, Some(Rat(1, 2))), LatLng(-5, 20, Some(Zero))>>,
     <<LatLng(0, 0, None), Arr3(5, -20, Rat(1, 2)), LatLng(-5, 20, Some(Zero))>>,
     <<LatLng(0, 0, Some(One)), LatLng(5, -20, Some(Rat(1, 2))), Arr3(-5, 20, Zero)>>,
     <<Arr2(0, 0), LatLng(0, 1, None)>>,
     <<Arr3(0, 0, Rat(8, 10)), Arr2(0, 1), LatLng(5, -20, Some(Rat(1, 2)))>>,
     <<Arr3(0, 0, One), Arr3(0, 1, One)>>}

InitF ==
    \E pts \in FDataSets, z \in Zooms :
        Constructed(pts, Partial({}, <<>>), z, FullSize) /\ context = TRUE

SpecF == InitF /\ [][NextR]_vars

(***************************************************************************)
(* C22: the intensity of a point given as [lat, lng], or as an L.LatLng    *)
(* without alt, is 1, and that of a point given with a third element or an *)
(* alt is that number, 0 included; and the recompute of a point set is the *)
(* recompute of the same positions and intensities in any other form: the  *)
(* same effectiveMax, cells and blobs.                                     *)
(***************************************************************************)
\* the intensity a point was given with, if it was given with one
Given(p) == IF p.form = "array2" THEN None ELSE p.alt

\* the point p in the form f; "short" is the form without intensity, for a
\* point of intensity 1
InForm(p, f) ==
    LET i == Coalesce(Given(p), One)
    IN  IF f = "array3" THEN Arr3(p.lat, p.lng, i)
        ELSE IF f = "latlng" THEN LatLng(p.lat, p.lng, Some(i))
        ELSE IF i # One THEN p
        ELSE IF f = "array2" THEN Arr2(p.lat, p.lng)
        ELSE LatLng(p.lat, p.lng, None)

C22_FormsAgree ==
    rec # None =>
        /\ \A k \in 1..Len(Last.in.latlngs) :
              LET p == Last.in.latlngs[k]
              IN  /\ Given(p) = None => GetIntensity(p) = One
                  /\ Given(p) # None => GetIntensity(p) = Given(p)[1]
        /\ \A f \in {"array2", "array3", "latlng", "latlng-short"} :
              LET other == [k \in 1..Len(Last.in.latlngs) |-> InForm(Last.in.latlngs[k], f)]
                  rc    == Recompute(other, Last.in.options, Last.rend, Last.in.view)
              IN  /\ rc.effectiveMax = Last.effectiveMax
                  /\ rc.grid = Last.grid
                  /\ rc.blobs = Last.blobs

\* a recompute of a point set that holds an [lat, lng], an L.LatLng with an
\* alt and an L.LatLng with an alt of 0, below the zoom of full intensity
C22_Witness ==
    /\ rec # None /\ Last.blobs # <<>> /\ Last.v # One
    /\ \E k \in 1..Len(Last.in.latlngs) : Last.in.latlngs[k].form = "array2"
    /\ \E k \in 1..Len(Last.in.latlngs) :
          Last.in.latlngs[k].form = "latlng" /\ Last.in.latlngs[k].alt = Some(Zero)
    /\ \E k \in 1..Len(Last.in.latlngs) :
          Last.in.latlngs[k].form = "latlng" /\ Last.in.latlngs[k].alt \notin {None, Some(Zero), Some(One)}
(***************************************************************************)
(* SpecA: attachment.  The layer is constructed on a map whose container   *)
(* is laid out or not, in a browser with or without a 2d context; its      *)
(* points and options are set, attached or not, it is attached and         *)
(* detached, and frames pass.                                              *)
(***************************************************************************)
APartials ==
    {Partial({"radius", "blur"}, [radius |-> Some(30), blur |-> Some(10)]),
     Partial({"gradient"}, [gradient |-> Some(TwoStops)])}

InitA ==
    \E sz \in Sizes, ctx \in BOOLEAN :
        Constructed(<<P08>>, Partial({}, <<>>), 0, sz) /\ context = ctx

NextA ==
    \/ AddTo
    \/ Remove
    \/ \E pts \in DataSets : SetLatLngs(pts)
    \/ \E partial \in APartials : SetOptions(partial)
    \/ FrameTick

SpecA == InitA /\ [][NextA]_vars

(***************************************************************************)
(* C24: attaching the layer creates the canvas and the renderer if there   *)
(* are none, puts the canvas in the pane, sizes it to the viewport, places *)
(* it at the viewport's top left, and recomputes in the same call from the *)
(* point set and the options the layer holds, so that what was set before  *)
(* the attachment is drawn by it.  The statement as written is             *)
(* C24_AttachRenders; in a viewport of width or height 0 the recompute     *)
(* returns at its guard and the attachment draws nothing.  What holds:     *)
(* unless the construction of the renderer throws, the attachment does all *)
(* of this but the recompute, and the recompute whenever the viewport has  *)
(* a width and a height.                                                   *)
(***************************************************************************)
\* the layer is attached in this step
Attached == ~ map /\ map'

\* the canvas is in the pane, sized to the viewport and at its top left, and
\* the renderer has the options of the layer
C24_RasterPlaced ==
    /\ canvas' /\ renderer' # None /\ dom'.inPane
    /\ dom'.size = size /\ dom'.pos = ContainerOriginToLayerPoint(View)
    /\ Some(renderer'[1].radius) = options.radius
    /\ Some(renderer'[1].blur) = options.blur
    /\ renderer'[1].gradient = Coalesce(options.gradient, DefaultGradient)

\* the step has recomputed from what the layer held and drawn the result,
\* and has left nothing to a frame
C24_RenderedNow ==
    /\ Recomputed
    /\ rec'[1].in = [latlngs |-> latlngs, options |-> options, view |-> View]
    /\ rec'[1].rend = [radius |-> options.radius[1], blur |-> options.blur[1]]
    /\ Len(raster'.stamps) = Len(rec'[1].blobs)
    /\ rec'[1].blobs # <<>> => raster'.palette = Some(Coalesce(options.gradient, DefaultGradient))
    /\ frame' = None /\ rafQueue' = {}
    /\ latlngs' = latlngs /\ options' = options

\* the statement as written, for an attachment that does not throw
C24_AttachRenders ==
    [][(Attached /\ thrown' = None) => (C24_RasterPlaced /\ C24_RenderedNow)]_vars

C24_AttachRendersInLaidOutViewport ==
    [][(Attached /\ thrown' = None) =>
          /\ C24_RasterPlaced
          /\ (size.x # 0 /\ size.y # 0) => C24_RenderedNow
          /\ (size.x = 0 \/ size.y = 0) => (rec' = rec /\ raster' = ClearedRaster)]_vars

\* the first recompute of a layer whose points, radius, blur and gradient
\* were set before: no frame was requested for it
C24_Witness ==
    /\ map /\ frame = None /\ ~ stale
    /\ rec # None /\ Last.n = 0 /\ Last.late = {}
    /\ Last.in.latlngs = <<P10, PFar>>
    /\ Last.rend = [radius |-> 30, blur |-> 10]
    /\ raster.stamps # <<>> /\ raster.stamps[1].circle = [radius |-> 30, blur |-> 10]
    /\ raster.palette = Some(TwoStops)
(***************************************************************************)
(* SpecV: the zoom factor.  The layer is constructed without maxZoom, with *)
(* a maxZoom among the map's zoom levels and with one far above them, is   *)
(* attached, and recomputes as the map's zoom is set and frames pass.      *)
(***************************************************************************)
VGivenOptions ==
    {Partial({}, <<>>),
     Partial({"maxZoom"}, [maxZoom |-> Some(1)]),
     Partial({"maxZoom"}, [maxZoom |-> Some(13)])}

InitV ==
    \E given \in VGivenOptions :
        Constructed(Scenario, given, 0, FullSize) /\ context = TRUE

NextV ==
    \/ AddTo
    \/ Redraw
    \/ FrameTick
    \/ \E z \in Zooms : SetZoom(z)

SpecV == InitV /\ [][NextV]_vars

(***************************************************************************)
(* C25: the zoom factor of a recompute is v = 2^(-clamp(maxZoom - zoom, 0, *)
(* 12)), maxZoom being the option of that name or else the map's maximum   *)
(* zoom: 1 at and above maxZoom, 2^-(maxZoom - zoom) up to 12 levels below *)
(* it, 2^-12 further below, so never above 1 nor below 2^-12; and one zoom *)
(* level down, within those 12 levels, halves it.                          *)
(***************************************************************************)
\* the zoom levels the recompute r is below the zoom of full intensity
LevelsBelow(r) == Coalesce(r.in.options.maxZoom, r.in.view.maxZoom) - r.in.view.zoom

C25_FactorOfLast ==
    rec # None =>
        /\ LevelsBelow(Last) <= 0 => Last.v = One
        /\ (0 < LevelsBelow(Last) /\ LevelsBelow(Last) <= 12) =>
               Last.v = Rat(1, Pow2(LevelsBelow(Last)))
        /\ LevelsBelow(Last) > 12 => Last.v = Rat(1, 4096)
        /\ RLeq(Rat(1, 4096), Last.v) /\ RLeq(Last.v, One)

RECURSIVE SumWeighted(_, _, _)
SumWeighted(r, K, axis) ==
    IF K = {} THEN Zero
    ELSE LET k == CHOOSE k \in K : TRUE
             p == r.in.latlngs[k]
         IN  RAdd(RMul(R(PixelOf(r, p)[axis]), RMul(GetIntensity(p), r.v)),
                  SumWeighted(r, K \ {k}, axis))

\* the keys of the points of recompute r that are in its padded bounds
KeysOf(r) ==
    {KeyOf(r, r.in.latlngs[k]) : k \in {j \in 1..Len(r.in.latlngs) : InPadded(r, r.in.latlngs[j])}}

\* the blob the statement gives for the cell with this key
StatedBlob(r, key) ==
    [x |-> RDiv(SumWeighted(r, Members(r, key), "x"), SumScaled(r, Members(r, key))),
     y |-> RDiv(SumWeighted(r, Members(r, key), "y"), SumScaled(r, Members(r, key))),
     i |-> RDiv(SumScaled(r, Members(r, key)), r.effectiveMax)]

C26_OneCellPerKey ==
    /\ {Last.grid[c].key : c \in 1..Len(Last.grid)} = KeysOf(Last)
    /\ Len(Last.grid) = Cardinality(KeysOf(Last))

C26_BlobForEveryCell ==
    rec # None =>
        /\ C26_OneCellPerKey
        /\ Len(Last.blobs) = Len(Last.grid)
        /\ \A c \in 1..Len(Last.grid) :
              Last.blobs[c] = StatedBlob(Last, Last.grid[c].key)

C26_BlobForEveryCellOfIntensity ==
    rec # None =>
        /\ C26_OneCellPerKey
        /\ Len(Last.blobs) =
               Cardinality({c \in 1..Len(Last.grid) :
                               SumScaled(Last, Members(Last, Last.grid[c].key)) # Zero})
        /\ \A c \in 1..Len(Last.grid) :
              SumScaled(Last, Members(Last, Last.grid[c].key)) # Zero =>
                  BlobOfCell(Last, c) = StatedBlob(Last, Last.grid[c].key)

\* a recompute after a pan with three cells, one of them of no intensity, and
\* two blobs
C26_Witness ==
    /\ rec # None /\ Last.in.view.pane # Pt(0, 0)
    /\ Len(Last.grid) = 3 /\ Len(Last.blobs) = 2
    /\ \E c \in 1..3 : Last.grid[c].si = Zero /\ Last.grid[c].cnt = 1
    /\ \A m \in 1..2 : Last.blobs[m].x # Zero /\ Last.blobs[m].i # Zero
(***************************************************************************)
(* C27: a draw of a blob list that is not empty clears the raster, then    *)
(* stamps every blob once, in the order of the list, at (x - (radius +     *)
(* blur), y - (radius + blur)) with the stamp of the renderer's radius and *)
(* blur, a square of side 2 * (radius + blur), under the global alpha      *)
(* max(intensity, minOpacity), or 1 where that is above 1, the most a      *)
(* canvas draws with; then recolours once.                                 *)
(***************************************************************************)
RMin(a, b) == IF RLess(b, a) THEN b ELSE a

C27_StampsEveryBlob ==
    [][(Recomputed /\ rec'[1].blobs # <<>>) =>
          LET blobs      == rec'[1].blobs
              fullRadius == renderer'[1].radius + renderer'[1].blur
          IN  /\ Len(raster'.stamps) = Len(blobs)
              /\ \A k \in 1..Len(blobs) :
                    /\ raster'.stamps[k].x = RSub(blobs[k].x, R(fullRadius))
                    /\ raster'.stamps[k].y = RSub(blobs[k].y, R(fullRadius))
                    /\ raster'.stamps[k].circle =
                           [radius |-> renderer'[1].radius, blur |-> renderer'[1].blur]
                    /\ raster'.stamps[k].alpha =
                           RMin(One, RMax(blobs[k].i, renderer'[1].minOpacity))
              /\ raster'.palette = Some(renderer'[1].gradient)]_vars
(***************************************************************************)
(* SpecX: moves with and without a zoom animation.  The layer is           *)
(* constructed with the default crossfade duration or with a duration of   *)
(* 0, is attached and detached, and the map is panned, zoomed with and     *)
(* without animation, while crossfade timers expire.                       *)
(***************************************************************************)
XGivenOptions ==
    {Partial({}, <<>>),
     Partial({"zoomCrossfadeDuration"}, [zoomCrossfadeDuration |-> Some(0)])}

InitX ==
    \E given \in XGivenOptions :
        Constructed(<<P10>>, given, 0, FullSize) /\ context = TRUE

NextX ==
    \/ AddTo
    \/ Remove
    \/ \E p \in PanePositions : Pan(p)
    \/ \E z \in Zooms : SetZoom(z)
    \/ \E z \in Zooms : ZoomAnimStart(z)
    \/ ZoomAnimEnd
    \/ TimerFire

SpecX == InitX /\ [][NextX]_vars

(***************************************************************************)
(* C28: a moveend takes a snapshot of the raster as it was and starts a    *)
(* fade timer if and only if the layer was notified of a zoom animation    *)
(* since the moveend before and the crossfade duration, 250 ms unless      *)
(* configured, is above 0; the moveend of a pan or of a zoom without       *)
(* animation, and any moveend under a duration of 0, leaves the snapshot   *)
(* and the timers as they were.  The moveend handler also runs when the    *)
(* layer is attached, and that run counts as a moveend here.               *)
(***************************************************************************)
\* the map fires moveend at the attached layer in this step: after a pan, a
\* zoom without animation, or at the end of a zoom animation
MoveEndFired ==
    map /\ map' /\ (pane' # pane \/ zoom' # zoom \/ (anim # None /\ anim' = None))

\* the map notifies the attached layer of a zoom animation in this step
ZoomAnimFired == map /\ map' /\ anim = None /\ anim' # None

\* the step has taken a snapshot of the raster it began with and started its fade
SnapshotTaken(duration) ==
    /\ snapshotCanvas' # None
    /\ snapshotCanvas'[1].content = raster
    /\ snapshotCanvas'[1].size = dom.size
    /\ snapshotCanvas'[1].transform = dom.transform
    /\ snapshotCanvas'[1].transition = Some(duration)
    /\ crossfadeTimer' # None /\ timers' = {crossfadeTimer'[1]}

Duration == Coalesce(options.zoomCrossfadeDuration, 250)

\* the moveend handler runs in this step: at a moveend and at an attachment
MoveEndHandled == MoveEndFired \/ (Attached /\ thrown' = None)

C28_SnapshotIffZoomAnimated ==
    [][/\ ZoomAnimFired => zooming'
       /\ MoveEndHandled =>
              /\ ~ zooming'
              /\ (zooming /\ Duration > 0) => SnapshotTaken(Duration)
              /\ ~ (zooming /\ Duration > 0) =>
                     /\ snapshotCanvas' = snapshotCanvas
                     /\ crossfadeTimer' = crossfadeTimer /\ timers' = timers
       /\ (~ ZoomAnimFired /\ ~ MoveEndHandled) => zooming' = zooming]_vars

\* the moveend of a pan has left alone the fading snapshot of the zoom
\* animation before it
C28_Witness ==
    /\ map /\ ~ zooming /\ anim = None /\ pane # Pt(0, 0)
    /\ snapshotCanvas # None /\ snapshotCanvas[1].transition = Some(250)
    /\ snapshotCanvas[1].transform.scale # One
    /\ crossfadeTimer # None /\ timers = {crossfadeTimer[1]}
(***************************************************************************)
(* C29: in a crossfade the snapshot holds the raster as it was before the  *)
(* canvas was resized, which clears it, and recomputed; the fade timer is  *)
(* started in the same run of the handler, after the recompute has painted *)
(* the new raster; and the timer that fires is the one the layer holds the *)
(* handle of, and firing makes the handle null.                            *)
(***************************************************************************)
\* a crossfade timeout expires in this step
TimerFired == map' = map /\ ~ MoveEndHandled /\ timers' # timers

C29_OneTimer ==
    /\ crossfadeTimer = None => timers = {}
    /\ crossfadeTimer # None => timers = {crossfadeTimer[1]}

C29_SnapshotBeforeRepaint ==
    [][/\ C29_OneTimer /\ C29_OneTimer'
       /\ (MoveEndHandled /\ zooming /\ Duration > 0) =>
              /\ snapshotCanvas' # None /\ snapshotCanvas'[1].content = raster
              /\ Recomputed
              /\ Len(raster'.stamps) = Len(rec'[1].blobs)
              /\ rec'[1].blobs # <<>> => raster' # ClearedRaster
              /\ snapshotCanvas'[1].opacity = 0
              /\ snapshotCanvas'[1].transition = Some(Duration)
              /\ crossfadeTimer' # None
       /\ TimerFired =>
              /\ crossfadeTimer # None /\ timers = {crossfadeTimer[1]}
              /\ crossfadeTimer' = None /\ timers' = {}
              /\ snapshotCanvas' # None /\ snapshotCanvas'[1].transition = None
              /\ raster' = raster /\ rec' = rec]_vars

\* the timer of a crossfade has fired: the snapshot holds the raster of the
\* zoom before, the raster is the one painted at the new zoom
C29_Witness ==
    /\ map /\ crossfadeTimer = None /\ timers = {}
    /\ snapshotCanvas # None /\ snapshotCanvas[1].transition = None
    /\ snapshotCanvas[1].opacity = 0
    /\ snapshotCanvas[1].content # None /\ snapshotCanvas[1].content.stamps # <<>>
    /\ raster.stamps # <<>> /\ raster # snapshotCanvas[1].content
    /\ zoom # 0 /\ anim = None
(***************************************************************************)
(* C30: a point is aggregated by a recompute if and only if its position   *)
(* lies in the visible bounds extended to the north and south by           *)
(* (radius + blur) / viewport height of their latitude span and to the     *)
(* east and west by (radius + blur) / viewport width of their longitude    *)
(* span; the projection of the map being linear, every point whose pixel   *)
(* is within radius + blur pixels of the viewport is among them.           *)
(***************************************************************************)
\* position p lies in the visible bounds of recompute r extended as stated
InExtendedBounds(r, p) ==
    LET b       == GetBounds(r.in.view)
        ll      == ToLatLng(p)
        full    == r.rend.radius + r.rend.blur
        latSpan == RSub(b.north, b.south)
        lngSpan == RSub(b.east, b.west)
        dLat    == RDiv(RMul(R(full), latSpan), R(r.in.view.size.y))
        dLng    == RDiv(RMul(R(full), lngSpan), R(r.in.view.size.x))
    IN  /\ RLeq(RSub(b.south, dLat), R(ll.lat)) /\ RLeq(R(ll.lat), RAdd(b.north, dLat))
        /\ RLeq(RSub(b.west, dLng), R(ll.lng)) /\ RLeq(R(ll.lng), RAdd(b.east, dLng))

\* the pixel of point p is outside the viewport of recompute r
OffViewport(r, p) ==
    LET px == PixelOf(r, p)
    IN  \/ px.x < 0 \/ px.x > r.in.view.size.x
        \/ px.y < 0 \/ px.y > r.in.view.size.y

\* rec is the record of the latest recompute, inputs and grid
C30_AggregatedIffInExtendedBounds ==
    rec # None =>
        LET pts  == Last.in.latlngs
            took == {k \in 1..Len(pts) : InExtendedBounds(Last, pts[k])}
        IN  /\ \A c \in 1..Len(Last.grid) :
                  /\ Last.grid[c].cnt > 0
                  /\ Last.grid[c].cnt =
                         Cardinality({k \in took : KeyOf(Last, pts[k]) = Last.grid[c].key})
            /\ \A k \in took : \E c \in 1..Len(Last.grid) :
                  Last.grid[c].key = KeyOf(Last, pts[k])
            /\ \A k \in 1..Len(pts) : InPaddedViewport(Last, pts[k]) => k \in took

\* a recompute that aggregated a point off the viewport, within the
\* extension, and left out a point beyond the extension
C30_Witness ==
    /\ rec # None
    /\ \E k \in 1..Len(Last.in.latlngs) :
          /\ OffViewport(Last, Last.in.latlngs[k])
          /\ InExtendedBounds(Last, Last.in.latlngs[k])
          /\ \E c \in 1..Len(Last.grid) :
                Last.grid[c].key = KeyOf(Last, Last.in.latlngs[k])
    /\ \E k \in 1..Len(Last.in.latlngs) : ~ InExtendedBounds(Last, Last.in.latlngs[k])
(***************************************************************************)
(* C31: what a draw leaves in the raster is determined by the blob list    *)
(* and the renderer's radius, blur, minOpacity and gradient alone: a draw  *)
(* of the blob list of the draw before, under the same style and canvas    *)
(* size, ends with the pixels that draw ended with, although it began with *)
(* a painted raster where the other began with a cleared one.              *)
(***************************************************************************)
\* the style a renderer draws with
StyleOf(rend) ==
    [radius |-> rend.radius, blur |-> rend.blur,
     minOpacity |-> rend.minOpacity, gradient |-> rend.gradient]

C31_DrawDependsOnBlobsAndStyleOnly ==
    [][(/\ Recomputed /\ rec # None
        /\ rec'[1].blobs = rec[1].blobs
        /\ renderer # None /\ StyleOf(renderer'[1]) = StyleOf(renderer[1])
        /\ dom'.size = dom.size)
       => raster'.pixels = raster.pixels]_vars
(***************************************************************************)
(* SpecU: options set and unset.  A layer is attached and detached, frames *)
(* pass, and setOptions is called with partial options, among them ones    *)
(* that name a field and give it the value undefined.                      *)
(***************************************************************************)
UPartials ==
    {Partial({"radius", "blur"}, [radius |-> Some(30), blur |-> Some(10)]),
     Partial({"gradient"}, [gradient |-> Some(TwoStops)]),
     Partial({"gradient"}, [gradient |-> None]),
     Partial({"radius", "minOpacity"}, [radius |-> None, minOpacity |-> Some(Rat(1, 2))])}

NextU ==
    \/ AddTo
    \/ Remove
    \/ \E partial \in UPartials : SetOptions(partial)
    \/ FrameTick

SpecU == Init /\ [][NextU]_vars

(***************************************************************************)
(* C32: a renderer the layer holds has the radius, blur, minOpacity and    *)
(* gradient of the layer's options, an option that is not set standing for *)
(* its default, whatever was called before; and a recompute works with the *)
(* radius and blur of the layer's options.                                 *)
(***************************************************************************)
\* the style the layer's options o ask for
StyleAsked(o) ==
    [radius     |-> Coalesce(o.radius, DefaultRadius),
     blur       |-> Coalesce(o.blur, DefaultBlur),
     minOpacity |-> Coalesce(o.minOpacity, DefaultMinOpacity),
     gradient   |-> Coalesce(o.gradient, DefaultGradient)]

C32_PainterHasLayerOptions ==
    [][/\ renderer' # None => StyleOf(renderer'[1]) = StyleAsked(options')
       /\ Recomputed =>
              rec'[1].rend = [radius |-> StyleAsked(options').radius,
                              blur   |-> StyleAsked(options').blur]]_vars
(***************************************************************************)
(* C33: redraw, setLatLngs, addLatLng and setOptions called on a layer     *)
(* that is on no map, before its first attachment or after a detachment,   *)
(* request no frame: the layer holds no frame handle, the browser none of  *)
(* its callbacks, and nothing is recomputed or drawn until the layer is    *)
(* attached again, which recomputes what it then holds.                    *)
(***************************************************************************)
C33_DetachedSchedulesNothing ==
    [][/\ ~ map' => (frame' = None /\ rafQueue' = {})
       /\ (~ map /\ ~ map') =>
              (~ Recomputed /\ rec' = rec /\ raster' = raster)
       /\ (Attached /\ thrown' = None) =>
              (Recomputed /\ rec'[1].in.latlngs = latlngs /\ rec'[1].in.options = options)]_vars

\* a point set and a cap given to the layer after it was detached: the last
\* recompute is of the points and options before, and no frame is requested
C33_Witness ==
    /\ ~ map /\ ~ stale /\ rec # None
    /\ Last.in.latlngs # latlngs /\ Last.in.options # options
    /\ Len(latlngs) = MaxPoints
    /\ frame = None /\ rafQueue = {} /\ sinceTick = 0
(***************************************************************************)
(* SpecT: crossfades under changing options.  The layer is attached and    *)
(* detached, the map is panned and zooms with animation, the crossfade     *)
(* duration is set to 0, frames pass and timers expire.                    *)
(***************************************************************************)
TPartials == {Partial({"zoomCrossfadeDuration"}, [zoomCrossfadeDuration |-> Some(0)])}

TZooms == {0, 1}

NextT ==
    \/ AddTo
    \/ Remove
    \/ \E p \in PanePositions : Pan(p)
    \/ \E z \in TZooms : ZoomAnimStart(z)
    \/ ZoomAnimEnd
    \/ \E partial \in TPartials : SetOptions(partial)
    \/ FrameTick
    \/ TimerFire

SpecT == Init /\ [][NextT]_vars

(***************************************************************************)
(* C34: the browser holds at most one crossfade timeout of the layer, and  *)
(* the layer's timer handle is set exactly when it holds one, to that one: *)
(* no timeout runs that the layer has lost the handle of.                  *)
(***************************************************************************)
C34_NoTimerLeaked ==
    /\ Cardinality(timers) <= 1
    /\ crossfadeTimer = None <=> timers = {}
    /\ crossfadeTimer # None => crossfadeTimer[1] \in timers

\* the timer of a crossfade is still running, and referenced, after the
\* duration was set to 0 and a later animated zoom ended without a crossfade
C34_Witness ==
    /\ map /\ anim = None /\ zoom = 0
    /\ options.zoomCrossfadeDuration = Some(0)
    /\ crossfadeTimer # None /\ timers = {crossfadeTimer[1]}
    /\ snapshotCanvas # None /\ snapshotCanvas[1].transition = Some(DefaultCrossfade)
(***************************************************************************)
(* C35: an attachment starts no crossfade: when onAdd has returned, no     *)
(* crossfade timer is pending and the layer holds no snapshot, whatever    *)
(* happened before, a detachment in the middle of a zoom animation         *)
(* included.                                                               *)
(***************************************************************************)
C35_AttachStartsNoCrossfade ==
    [][(Attached /\ thrown' = None) =>
          (crossfadeTimer' = None /\ timers' = {} /\ snapshotCanvas' = None)]_vars
(***************************************************************************)
(* C36: the layer's moveend and zoomanim handlers are subscribed on the    *)
(* map exactly while the layer is attached: an attachment subscribes both, *)
(* neither having been subscribed before it, a detachment unsubscribes     *)
(* both, and a moveend or zoomanim of the map while the layer is detached  *)
(* resizes, recomputes, draws and transforms nothing.                      *)
(***************************************************************************)
Handlers == {"moveend", "zoomanim"}

\* the map moved or began or ended a zoom in this step
MapNotified == zoom' # zoom \/ pane' # pane \/ anim' # anim

C36_SubscribedWhileAttached ==
    [][/\ listening' = IF map' THEN Handlers ELSE {}
       /\ Attached => listening = {}
       /\ (MapNotified /\ ~ map) =>
              /\ ~ map' /\ ~ Recomputed
              /\ dom' = dom /\ raster' = raster /\ rec' = rec
              /\ zooming' = zooming /\ snapshotCanvas' = snapshotCanvas
              /\ timers' = timers /\ rafQueue' = rafQueue]_vars

\* a detached layer, on a map that has since been zoomed and is in a zoom
\* animation none of whose events reached the layer
C36_Witness ==
    /\ ~ map /\ listening = {} /\ rec # None
    /\ Last.in.view.zoom # zoom /\ anim # None /\ ~ zooming
    /\ dom # None /\ dom.size = Last.in.view.size /\ dom.transform.scale = One
(***************************************************************************)
(* C38: in every state the layer has a canvas if and only if it has a      *)
(* renderer, after a construction of the renderer that threw as well, so   *)
(* that a handler past its test of the canvas finds a renderer.            *)
(***************************************************************************)
C38_CanvasIffRenderer == canvas <=> renderer # None
(***************************************************************************)
(* Rounding.  A JavaScript number is an IEEE-754 binary floating-point     *)
(* number, and every product, sum and quotient of HeatLayer._redraw is     *)
(* rounded to the nearest number of the format, ties to the even           *)
(* significand.  The format of the program has 53 bits of significand;     *)
(* the format here has SignificandBits, the same rounding rule and no      *)
(* bound on the exponent.  Pixel coordinates are integers below            *)
(* 2^SignificandBits and the zoom factor is a power of two, so they are    *)
(* numbers of the format, as they are of the program's.                    *)
(***************************************************************************)
SignificandBits == 8

\* 2^k for an integer k
RPow2(k) == IF k >= 0 THEN R(Pow2(k)) ELSE Rat(1, Pow2(- k))

\* the k with 2^k <= a < 2^(k + 1), for a > 0, looked for from k on
RECURSIVE ExponentFrom(_, _)
ExponentFrom(a, k) ==
    IF RLess(a, RPow2(k)) THEN ExponentFrom(a, k - 1)
    ELSE IF RLeq(RPow2(k + 1), a) THEN ExponentFrom(a, k + 1)
    ELSE k

\* the integer nearest to m >= 0, the even one of two that are equally near
RoundHalfEven(m) ==
    LET f    == RFloor(m)
        rest == RSub(m, R(f))
    IN  IF RLess(Rat(1, 2), rest) \/ (rest = Rat(1, 2) /\ f % 2 = 1) THEN f + 1 ELSE f

\* a > 0 as the nearest multiple of ulp
NearestMultiple(a, ulp) == RMul(R(RoundHalfEven(RDiv(a, ulp))), ulp)

\* q > 0 as the nearest number of the format: a multiple of the distance
\* between the numbers of the format that have the binary exponent of q
NearestAbove0(q) ==
    Then(RPow2(ExponentFrom(q, 0) - (SignificandBits - 1)),
         LAMBDA ulp : NearestMultiple(q, ulp))

\* the number of the format nearest to q.  Infinity and 1e-10, on which the
\* recompute does no arithmetic when a point has an intensity, are kept
Nearest(q) ==
    IF q.n = 0 \/ q.d = 0 \/ q.e # 0 THEN q
    ELSE IF q.n < 0 THEN RNeg(NearestAbove0(RNeg(q)))
    ELSE NearestAbove0(q)

\* rounding, of a result that has been computed
Fl(q) == Then(q, Nearest)

\* a * b, a + b and a / b of two numbers of the format
FMul(a, b) == Fl(RMul(a, b))

FAdd(a, b) == Fl(RAdd(a, b))

FDiv(a, b) == Fl(RDiv(a, b))
(***************************************************************************)
(* HeatLayer._redraw in rounded arithmetic: every operation on numbers     *)
(* that are not integers is followed by its rounding.  An intensity is     *)
(* read as the number of the format nearest to what was written.  The      *)
(* padded bounds and the cell keys are computed on integers and on         *)
(* quotients of integers by powers of two, which the format holds.         *)
(***************************************************************************)
\* pass 1: the loop over all points
RECURSIVE AutoMaxLoopRounded(_, _, _, _)
AutoMaxLoopRounded(pts, k, v, autoMax) ==
    IF k > Len(pts) THEN autoMax
    ELSE LET scaled == FMul(Fl(GetIntensity(pts[k])), v)
         IN  AutoMaxLoopRounded(pts, k + 1, v,
                                IF RLess(autoMax, scaled) THEN scaled ELSE autoMax)

\* effectiveMax = this._options.max ?? Math.max(autoMax, 1e-10)
EffectiveMaxRounded(pts, opts, rend, view) ==
    LET v       == ZoomFactor(opts, view)
        autoMax == IF opts.max = None THEN AutoMaxLoopRounded(pts, 1, v, Zero) ELSE Zero
    IN  IF opts.max = None THEN RMax(autoMax, Epsilon) ELSE Fl(opts.max[1])

\* the loop body of pass 2 with a cell holding the last point that fell into it
AccumulateRoundedLatest(grid, p, rend, view, v, padded) ==
    LET latlng == ToLatLng(p)
    IN  IF ~ BoundsContain(padded, latlng) THEN grid
        ELSE LET lp        == LatLngToLayerPoint(view, latlng)
                 topLeft   == ContainerOriginToLayerPoint(view)
                 x         == Fl(R(lp.x - topLeft.x))
                 y         == Fl(R(lp.y - topLeft.y))
                 intensity == FMul(Fl(GetIntensity(p)), v)
                 key       == <<lp.x \div CellSize(rend), lp.y \div CellSize(rend)>>
                 j         == CellIndex(grid, key)
                 cell      == [key |-> key,
                               sx  |-> FMul(x, intensity),
                               sy  |-> FMul(y, intensity),
                               si  |-> intensity,
                               cnt |-> 1]
             IN  IF j # 0 THEN [grid EXCEPT ![j] = [cell EXCEPT !.cnt = grid[j].cnt + 1]]
                 ELSE Append(grid, cell)

\* the loop body of pass 2 summing layer points instead of canvas-local pixels
AccumulateRoundedLayerPoints(grid, p, rend, view, v, padded) ==
    LET latlng == ToLatLng(p)
    IN  IF ~ BoundsContain(padded, latlng) THEN grid
        ELSE LET lp        == LatLngToLayerPoint(view, latlng)
                 x         == Fl(R(lp.x))
                 y         == Fl(R(lp.y))
                 intensity == FMul(Fl(GetIntensity(p)), v)
                 key       == <<lp.x \div CellSize(rend), lp.y \div CellSize(rend)>>
                 j         == CellIndex(grid, key)
             IN  IF j # 0
                 THEN [grid EXCEPT ![j] =
                          [key |-> key,
                           sx  |-> FAdd(@.sx, FMul(x, intensity)),
                           sy  |-> FAdd(@.sy, FMul(y, intensity)),
                           si  |-> FAdd(@.si, intensity),
                           cnt |-> @.cnt + 1]]
                 ELSE Append(grid, [key |-> key,
                                    sx  |-> FMul(x, intensity),
                                    sy  |-> FMul(y, intensity),
                                    si  |-> intensity,
                                    cnt |-> 1])

\* one turn of the loop of pass 2 for point p
AccumulateRounded(grid, p, rend, view, v, padded) ==
    LET latlng == ToLatLng(p)
    IN  IF ~ BoundsContain(padded, latlng) THEN grid
        ELSE LET lp        == LatLngToLayerPoint(view, latlng)
                 topLeft   == ContainerOriginToLayerPoint(view)
                 x         == Fl(R(lp.x - topLeft.x))
                 y         == Fl(R(lp.y - topLeft.y))
                 intensity == FMul(Fl(GetIntensity(p)), v)
                 key       == <<lp.x \div CellSize(rend), lp.y \div CellSize(rend)>>
                 j         == CellIndex(grid, key)
             IN  IF j # 0
                 THEN [grid EXCEPT ![j] =
                          [key |-> key,
                           sx  |-> FAdd(@.sx, FMul(x, intensity)),
                           sy  |-> FAdd(@.sy, FMul(y, intensity)),
                           si  |-> FAdd(@.si, intensity),
                           cnt |-> @.cnt + 1]]
                 ELSE Append(grid, [key |-> key,
                                    sx  |-> FMul(x, intensity),
                                    sy  |-> FMul(y, intensity),
                                    si  |-> intensity,
                                    cnt |-> 1])

\* pass 2: the grid, its cells in the order in which they were created
RECURSIVE GridLoopRounded(_, _, _, _, _, _, _)
GridLoopRounded(pts, k, rend, view, v, padded, grid) ==
    IF k > Len(pts) THEN grid
    ELSE GridLoopRounded(pts, k + 1, rend, view, v, padded,
                         AccumulateRounded(grid, pts[k], rend, view, v, padded))

GridRounded(pts, opts, rend, view) ==
    GridLoopRounded(pts, 1, rend, view, ZoomFactor(opts, view), PaddedBounds(rend, view),
                    <<>>)

\* the blob of one cell with the sums divided by the count of its points
CellBlobRoundedByCount(cell, effectiveMax) ==
    [x |-> FDiv(cell.sx, R(cell.cnt)), y |-> FDiv(cell.sy, R(cell.cnt)),
     i |-> FDiv(cell.si, effectiveMax)]

\* the blob of one cell
CellBlobRounded(cell, effectiveMax) ==
    [x |-> FDiv(cell.sx, cell.si), y |-> FDiv(cell.sy, cell.si),
     i |-> FDiv(cell.si, effectiveMax)]

\* the cells of the grid to blobs, none of them skipped
PixelPointsRoundedNoSkip(grid, k, effectiveMax) ==
    [j \in 1..Len(grid) |-> CellBlobRounded(grid[j], effectiveMax)]

\* the cells of the grid to blobs; a cell whose total intensity is 0 is skipped
RECURSIVE PixelPointsRounded(_, _, _)
PixelPointsRounded(grid, k, effectiveMax) ==
    IF k > Len(grid) THEN <<>>
    ELSE IF grid[k].si = Zero THEN PixelPointsRounded(grid, k + 1, effectiveMax)
    ELSE <<CellBlobRounded(grid[k], effectiveMax)>>
             \o PixelPointsRounded(grid, k + 1, effectiveMax)

\* what one recompute computes
RecomputeRounded(pts, opts, rend, view) ==
    LET v    == ZoomFactor(opts, view)
        eMax == EffectiveMaxRounded(pts, opts, rend, view)
        grid == GridRounded(pts, opts, rend, view)
    IN  [v |-> v, effectiveMax |-> eMax, grid |-> grid,
         blobs |-> PixelPointsRounded(grid, 1, eMax)]

(***************************************************************************)
(* SpecD: the recompute as a function of the point set, the options and    *)
(* the view, in rounded arithmetic.  The layer is constructed with one of  *)
(* several point sets, one of them with intensities that cancel in a cell  *)
(* and one with an intensity of 0; a step is the computation of _redraw at *)
(* one of the pane positions, for the renderer the options give.           *)
(***************************************************************************)
\* at zoom 0 on the corner of a cell of the default radius: pixel (12, 48)
D07 == Arr3(2, -88, Rat(7, 10))

D09 == Arr3(2, -88, Rat(9, 10))

\* an intensity that is a power of two
DHalf == Arr3(2, -88, Rat(1, 2))

\* in the cell of D07 at zoom 0: pixel (15, 50)
DNear == Arr3(0, -85, Rat(3, 10))

\* in the cell of P10 at zoom 0: pixel (125, 56)
DBy10 == Arr3(-6, 25, Rat(3, 10))

\* in the cell of D07 at zoom 0, of the opposite intensity: pixel (15, 50)
DMinus == Arr3(0, -85, Rat(-7, 10))

DDataSets == {<<D07>>, <<D09>>, <<DHalf>>, <<D07, DNear>>, <<D09, P10, DBy10>>,
              <<D07, D09, DNear>>, <<D07, DMinus, P10>>, <<PZero, P10>>}

DGivenOptions == {Partial({}, <<>>), Partial({"max"}, [max |-> Some(Rat(3, 10))])}

DZooms == {0, 1}

DPanePositions == {Pt(0, 0), Pt(12, 0), Pt(7, -30), Pt(-24, 5)}

InitD ==
    \E pts \in DDataSets, given \in DGivenOptions, z \in DZooms :
        Constructed(pts, given, z, FullSize) /\ context = TRUE

\* the computation of _redraw with the map pane at p
RedrawRounded(p) ==
    \E view \in {ViewOf(zoom, p, size, origin)}, rend \in {NewRenderer(options)} :
    \E rc \in {RecomputeRounded(latlngs, options, rend, view)} :
        /\ pane' = p
        /\ rec' = Some([n |-> IF rec = None THEN 0 ELSE 1 - rec[1].n,
                        in |-> [latlngs |-> latlngs, options |-> options, view |-> view],
                        late |-> {},
                        rend |-> [radius |-> rend.radius, blur |-> rend.blur],
                        v |-> rc.v, effectiveMax |-> rc.effectiveMax,
                        grid |-> rc.grid, blobs |-> rc.blobs])
        /\ UNCHANGED <<latlngs, options, map, canvas, renderer, frame, zooming,
                       crossfadeTimer, snapshotCanvas, listening, dom, raster, rafQueue,
                       timers, sinceTick, req, stale, thrown,
                       zoom, size, origin, anim, context>>

NextD == \E p \in DPanePositions : RedrawRounded(p)

SpecD == InitD /\ [][NextD]_vars
(***************************************************************************)
(* C39: when no intensity is negative, the centre of every blob, moved to  *)
(* layer coordinates by the layer point of the container's origin, is in   *)
(* the cell the blob was made from, up to the rounding of the sums and of  *)
(* the quotient: it is no further from the cell than (2 * count + 1) unit  *)
(* roundoffs of the largest coordinate summed, and in the cell itself when *)
(* the cell has one point whose scaled intensity is a power of two.  The   *)
(* cell size is at least 1.                                                *)
(***************************************************************************)
NonNegative(pts) == \A k \in 1..Len(pts) : ~ RLess(GetIntensity(pts[k]), Zero)

\* the centre of blob b of recompute r in layer coordinates
LayerCentre(r, b) ==
    LET topLeft == ContainerOriginToLayerPoint(r.in.view)
    IN  [x |-> RAdd(b.x, R(topLeft.x)), y |-> RAdd(b.y, R(topLeft.y))]

\* the cell of a position in layer coordinates: floor(coordinate / cellSize)
CellOf(r, c) ==
    <<RFloor(RDiv(c.x, R(CellSize(r.rend)))), RFloor(RDiv(c.y, R(CellSize(r.rend))))>>

\* half the distance between 1 and the next number of the format
UnitRoundoff == Rat(1, Pow2(SignificandBits))

\* the largest |coordinate| of the pixels summed into the cell with this key
MaxAbsPixel(r, key, axis) ==
    LET S == {Abs(PixelOf(r, r.in.latlngs[k])[axis]) : k \in Members(r, key)}
    IN  CHOOSE m \in S : \A x \in S : x <= m

\* the rounding a centre of the cell with this key may have gathered
Tolerance(r, key, axis) ==
    RMul(R((2 * Cardinality(Members(r, key)) + 1) * MaxAbsPixel(r, key, axis)),
         UnitRoundoff)

\* coordinate c is within t of the cell of index g
NearCell(r, c, g, t) ==
    /\ RLeq(RSub(R(g * CellSize(r.rend)), t), c)
    /\ RLeq(c, RAdd(R((g + 1) * CellSize(r.rend)), t))

\* scaled intensity q is a power of two
PowerOfTwo(q) == q.e = 0 /\ q.n = 1 /\ \E k \in 0..MaxAttenuation + 1 : q.d = Pow2(k)

C39_CentroidInItsCell ==
    (rec # None /\ NonNegative(Last.in.latlngs)) =>
        /\ CellSize(Last.rend) >= 1
        /\ \A c \in 1..Len(Last.grid) :
              Last.grid[c].si # Zero =>
                  CellOf(Last, LayerCentre(Last, BlobOfCell(Last, c))) = Last.grid[c].key

C39_CentroidNearItsCell ==
    (rec # None /\ NonNegative(Last.in.latlngs)) =>
        /\ CellSize(Last.rend) >= 1
        /\ \A c \in 1..Len(Last.grid) :
              Last.grid[c].si # Zero =>
                  LET key    == Last.grid[c].key
                      centre == LayerCentre(Last, BlobOfCell(Last, c))
                  IN  /\ NearCell(Last, centre.x, key[1], Tolerance(Last, key, "x"))
                      /\ NearCell(Last, centre.y, key[2], Tolerance(Last, key, "y"))
                      /\ (Last.grid[c].cnt = 1 /\ PowerOfTwo(Last.grid[c].si)) =>
                             CellOf(Last, centre) = key

\* a recompute after a pan whose grid has a cell of one point on the corner
\* of its cell, whose centre the rounding has moved out of the cell, and a
\* cell of several points
C39_Witness ==
    /\ rec # None /\ NonNegative(Last.in.latlngs) /\ Last.in.view.pane # Pt(0, 0)
    /\ Len(Last.blobs) = 2
    /\ \E c \in 1..Len(Last.grid) : Last.grid[c].cnt = 2
    /\ \E c \in 1..Len(Last.grid) :
          /\ Last.grid[c].cnt = 1
          /\ CellOf(Last, LayerCentre(Last, BlobOfCell(Last, c))) # Last.grid[c].key
(***************************************************************************)
(* C37: when a recompute follows one of the same point set, options, zoom, *)
(* size, radius and blur at another pane position, and the same points are *)
(* in the padded bounds of both, it emits as many blobs in the same order, *)
(* each normalized intensity as before and, when no intensity is negative, *)
(* each centre moved by the difference of the pane positions up to the     *)
(* rounding of the two centres: by no more than (2 * count + 1) unit       *)
(* roundoffs of the largest coordinate summed, before and after, and by    *)
(* the difference itself when the cell has one point whose scaled          *)
(* intensity is a power of two.                                            *)
(***************************************************************************)
\* the recompute r has point k of its point set in its padded bounds
Kept(r, k) == InPadded(r, r.in.latlngs[k])

\* |a - b| <= t
Within(a, b, t) == RLeq(RSub(a, b), t) /\ RLeq(RSub(b, a), t)

C37_PanTranslatesBlobs ==
    [][(RecomputedAfterPan
          /\ \A k \in 1..Len(Last.in.latlngs) : Kept(Last, k) <=> Kept(rec'[1], k))
       => /\ Len(rec'[1].blobs) = Len(Last.blobs)
          /\ \A j \in 1..Len(Last.blobs) :
                /\ rec'[1].blobs[j].x =
                       RAdd(Last.blobs[j].x,
                            R(rec'[1].in.view.pane.x - Last.in.view.pane.x))
                /\ rec'[1].blobs[j].y =
                       RAdd(Last.blobs[j].y,
                            R(rec'[1].in.view.pane.y - Last.in.view.pane.y))
                /\ rec'[1].blobs[j].i = Last.blobs[j].i]_vars

C37_PanTranslatesBlobsUpToRounding ==
    [][(RecomputedAfterPan /\ NonNegative(Last.in.latlngs)
          /\ \A k \in 1..Len(Last.in.latlngs) : Kept(Last, k) <=> Kept(rec'[1], k))
       => LET before == Last
              after  == rec'[1]
              dx     == R(after.in.view.pane.x - before.in.view.pane.x)
              dy     == R(after.in.view.pane.y - before.in.view.pane.y)
          IN  /\ Len(after.blobs) = Len(before.blobs)
              /\ Len(after.grid) = Len(before.grid)
              /\ \A c \in 1..Len(before.grid) :
                    /\ after.grid[c].key = before.grid[c].key
                    /\ after.grid[c].si = before.grid[c].si
                    /\ before.grid[c].si # Zero =>
                          LET key == before.grid[c].key
                              b   == BlobOfCell(before, c)
                              a   == BlobOfCell(after, c)
                          IN  /\ a.i = b.i
                              /\ Within(a.x, RAdd(b.x, dx),
                                        RAdd(Tolerance(before, key, "x"),
                                             Tolerance(after, key, "x")))
                              /\ Within(a.y, RAdd(b.y, dy),
                                        RAdd(Tolerance(before, key, "y"),
                                             Tolerance(after, key, "y")))
                              /\ (before.grid[c].cnt = 1 /\ PowerOfTwo(before.grid[c].si)) =>
                                     (a.x = RAdd(b.x, dx) /\ a.y = RAdd(b.y, dy))]_vars

\* the blobs of the recompute r, had the map pane been at p
BlobsAt(r, p) ==
    RecomputeRounded(r.in.latlngs, r.in.options, r.rend,
                     [r.in.view EXCEPT !.pane = p]).blobs

\* the recompute of a pan from the home position that kept every point in
\* the padded bounds, of several blobs, one of them moved by another distance
\* than the pane
C37_Witness ==
    /\ rec # None /\ Last.n = 1 /\ Last.in.view.pane # Pt(0, 0)
    /\ Len(Last.blobs) >= 2
    /\ \A k \in 1..Len(Last.in.latlngs) :
          /\ Kept(Last, k)
          /\ Kept([Last EXCEPT !.in.view.pane = Pt(0, 0)], k)
    /\ \E j \in 1..Len(Last.blobs) :
          Last.blobs[j].x # RAdd(BlobsAt(Last, Pt(0, 0))[j].x, R(Last.in.view.pane.x))
(***************************************************************************)
(* C40: a recompute divides by the intensity sum of a cell only when that  *)
(* sum is not 0.  It emits one blob for each cell whose sum is not 0 and   *)
(* none for a cell whose sum is 0, whether no point of the cell has an     *)
(* intensity or the intensities cancel, and the coordinates of the centre  *)
(* of every blob are the finite quotients of the cell's sums.              *)
(***************************************************************************)
\* q is a number: neither Infinity nor -Infinity
Finite(q) == q.d # 0

C40_NoDivisionByZeroSum ==
    rec # None =>
        /\ Len(Last.blobs) =
               Cardinality({c \in 1..Len(Last.grid) : Last.grid[c].si # Zero})
        /\ \A c \in 1..Len(Last.grid) :
              Last.grid[c].si # Zero =>
                  /\ BlobOfCell(Last, c).x = FDiv(Last.grid[c].sx, Last.grid[c].si)
                  /\ BlobOfCell(Last, c).y = FDiv(Last.grid[c].sy, Last.grid[c].si)
        /\ \A j \in 1..Len(Last.blobs) : Finite(Last.blobs[j].x) /\ Finite(Last.blobs[j].y)

\* a recompute after a pan whose grid has a cell of two points of opposite
\* intensities, its sum 0 and its weighted sums not, and a cell with a blob
C40_Witness ==
    /\ rec # None /\ Last.in.view.pane # Pt(0, 0)
    /\ Len(Last.grid) = 2 /\ Len(Last.blobs) = 1
    /\ \E c \in 1..2 :
          /\ Last.grid[c].cnt = 2 /\ Last.grid[c].si = Zero
          /\ Last.grid[c].sx # Zero /\ Last.grid[c].sy # Zero
    /\ Finite(Last.blobs[1].x) /\ Last.blobs[1].i # Zero
(***************************************************************************)
(* C23: the order of the points matters to a recompute only through the    *)
(* rounding of sums of three or more terms.  For every permutation of its  *)
(* point set, the same viewport, zoom and options give the same            *)
(* effectiveMax and the same set of cells with the same counts; a cell of  *)
(* one or two points has the same sums and the same blob; and when no      *)
(* intensity is negative there are as many blobs, and the blob of a cell   *)
(* of more points has its centre within (2 * count + 1) unit roundoffs of  *)
(* the largest coordinate summed, and its normalized intensity within      *)
(* (2 * count + 1) unit roundoffs of itself, of the blob of the cell in    *)
(* the other order.                                                        *)
(***************************************************************************)
Orders(n) == {f \in [1..n -> 1..n] : \A j, k \in 1..n : f[j] = f[k] => j = k}

\* the set of the elements of a sequence
Range(seq) == {seq[k] : k \in 1..Len(seq)}

\* the recompute r on its point set in the order f
Reordered(r, f) ==
    RecomputeRounded([k \in 1..Len(r.in.latlngs) |-> r.in.latlngs[f[k]]],
                     r.in.options, r.rend, r.in.view)

\* the keys and counts of the cells of a grid
Occupancy(grid) == {<<grid[c].key, grid[c].cnt>> : c \in 1..Len(grid)}

C23_OrderIrrelevant ==
    rec # None =>
        \A f \in Orders(Len(Last.in.latlngs)) :
            LET rc == Reordered(Last, f)
            IN  /\ rc.effectiveMax = Last.effectiveMax
                /\ Range(rc.grid) = Range(Last.grid)
                /\ Range(rc.blobs) = Range(Last.blobs)
                /\ Len(rc.blobs) = Len(Last.blobs)

C23_OrderIrrelevantUpToRounding ==
    rec # None =>
        \A f \in Orders(Len(Last.in.latlngs)) :
            LET rc == Reordered(Last, f)
            IN  /\ rc.effectiveMax = Last.effectiveMax
                /\ Occupancy(rc.grid) = Occupancy(Last.grid)
                /\ Len(rc.grid) = Len(Last.grid)
                /\ \A c \in 1..Len(Last.grid) :
                      Last.grid[c].cnt <= 2 => Last.grid[c] \in Range(rc.grid)
                /\ NonNegative(Last.in.latlngs) =>
                      /\ Len(rc.blobs) = Len(Last.blobs)
                      /\ \A c \in 1..Len(Last.grid) :
                            Last.grid[c].si # Zero =>
                                LET key == Last.grid[c].key
                                    b   == BlobOfCell(Last, c)
                                    a   == BlobOfCell(rc, CellIndex(rc.grid, key))
                                    n   == Last.grid[c].cnt
                                IN  /\ n <= 2 => a = b
                                    /\ Within(a.x, b.x, Tolerance(Last, key, "x"))
                                    /\ Within(a.y, b.y, Tolerance(Last, key, "y"))
                                    /\ Within(a.i, b.i,
                                              RMul(RMul(R(2 * n + 1), UnitRoundoff), b.i))

\* a recompute of three points of different intensities in one cell, whose
\* blob is another in another order of the points
C23_Witness ==
    /\ rec # None /\ NonNegative(Last.in.latlngs)
    /\ Len(Last.grid) = 1 /\ Last.grid[1].cnt = 3 /\ Len(Last.blobs) = 1
    /\ \E f \in Orders(3) :
          /\ Reordered(Last, f).blobs[1] # Last.blobs[1]
          /\ Reordered(Last, f).grid[1].key = Last.grid[1].key
====
